---------------------------- MODULE Spec2Model ----------------------------
(***************************************************************************)
(* A model of the wasapi crate (HEnquist/wasapi-rs): the AudioClient       *)
(* wrapper of src/src/api.rs, its render and capture ports, and the        *)
(* engine (IAudioClient, IAudioRenderClient, IAudioCaptureClient) the      *)
(* wrapper calls into.  The engine is not part of the crate: every engine  *)
(* call is an oracle that answers with one of the outcomes the Windows     *)
(* interface documents (S_OK with a value in range, or a failing HRESULT), *)
(* and the wrapper's code decides everything else.                         *)
(*                                                                         *)
(* Option<T> is a sequence of length at most one: <<>> is None and <<v>>   *)
(* is Some(v); an Option of an enum is the string "None" or the variant.   *)
(***************************************************************************)
EXTENDS Integers, Sequences, FiniteSets, TLC

\* ------------------------------------------------------------------ bounds
\* Channel counts of the formats offered to initialize_client.
MaxChannels == 1
\* Durations (buffer_duration_hns, period_hns) offered in a StreamMode.
MaxDuration == 1
\* Largest buffer size, in frames, the engine allocates in Initialize.
MaxBuffer == 1
\* Longest caller slice / deque, in bytes, offered to a port.
MaxLen == 3
\* Largest frame count offered to a port and largest engine packet.
MaxFrames == 2
\* Largest bytes_per_frame of a port in the port specification.
MaxBpf == 2

\* WaveFormat::new: channel counts 1..MaxFmtChannels.
MaxFmtChannels == 3

\* Format operations applied in a row to one format.
MaxPath == 2

\* Desired periods of up to MaxPeriodSteps milliseconds.
MaxPeriodSteps == 3

\* State, role, direction and reason codes 0..MaxCode handed over by the engine.
MaxCode == 8

\* Channel counts of a channel-volume event.
MaxVolChannels == 2

\* Finite timeouts of 0..MaxTimeout milliseconds.
MaxTimeout == 2

\* Collections of up to MaxDevices devices.
MaxDevices == 2

\* Aligned buffer sizes of up to MaxSegments segments of 32 frames.
MaxSegments == 4

\* Process ids 1..MaxProcess.
MaxProcess == 2

\* Channel counts 0..MaxMaskChannels given to the mask synthesis.
MaxMaskChannels == 20

\* Engine buffers of 1..MaxRing frames.
MaxRing == 3

\* The packets the engine captures in one run.
MaxPackets == 2

\* ------------------------------------------------------------------- state
VARIABLES
    origin,          \* how the AudioClient was made: "get_iaudioclient" | "new_application_loopback_client"
    devdir,          \* Device.direction, copied into the client at creation
    direction,       \* AudioClient.direction
    sharemode,       \* AudioClient.sharemode: "None" | "Shared" | "Exclusive"
    timingmode,      \* AudioClient.timingmode: "None" | "Polling" | "Events"
    bytes_per_frame, \* AudioClient.bytes_per_frame: <<>> | <<n>>
    engInit,         \* engine: IAudioClient::Initialize has succeeded
    engBufferSize,   \* engine: the buffer size in frames it allocated
    engRunning,      \* engine: the stream is started
    rport,           \* the AudioRenderClient last returned: [exists, bytes_per_frame]
    cport,           \* the AudioCaptureClient last returned: [exists, sharemode, bytes_per_frame]
    deque,           \* the caller's VecDeque<u8>
    session,         \* the session notifications: [guard, registered, callbacks]
    index,           \* DeviceCollectionIter.index
    flow,            \* the calling program: its position and its local variables
    op,              \* the operation that ran last
    req,             \* its arguments
    res,             \* what it returned
    calls,           \* the engine calls it made, in order
    io               \* what it and the engine exchanged (values, buffers, flags)

vars == <<origin, devdir, direction, sharemode, timingmode, bytes_per_frame,
          engInit, engBufferSize, engRunning, rport, cport, deque, session, index,
          flow, op, req, res, calls, io>>

clientVars == <<origin, devdir, direction, sharemode, timingmode, bytes_per_frame,
                engInit, engBufferSize, engRunning>>

\* ------------------------------------------------------------------- enums
Direction == {"Render", "Capture"}

ShareMode == {"Shared", "Exclusive"}

TimingMode == {"Polling", "Events"}

SampleType == {"Float", "Int"}

Byte == {0, 1}

\* ----------------------------------------------------------------- results
\* WasapiRes<T>: Ok(value) or Err(WasapiError); hresult is the wrapped engine
\* error of WasapiError::Windows, got/expected the payload of the two
\* DataLength errors.
Ok(v) ==
    [status |-> "Ok", err |-> "", hresult |-> "", val |-> v]

Err(e) ==
    [status |-> "Err", err |-> e, hresult |-> "", val |-> 0]

Windows(hr) ==
    [status |-> "Err", err |-> "Windows", hresult |-> hr, val |-> 0]

S_OK == "S_OK"

NoIO == [none |-> TRUE]

NoReq == [none |-> TRUE]

\* No calling program is being followed.
NoFlow ==
    [pc |-> "none"]

\* No session notifications have been registered.
NoSession ==
    [guard |-> "none", registered |-> FALSE, callbacks |-> {}]

\* -------------------------------------------------------------- WaveFormat
Pow2(n) ==
    2 ^ n

AsU16(x) ==
    x % Pow2(16)

\* `as u32`: every integer the model checker holds is below 2^31, and the
\* cast keeps such a value.
AsU32(x) ==
    x

\* A variant that synthesizes a mask below 18 channels only.
WaveFormat_new_Below18(storebits, validbits, sample_type, samplerate, channels, channel_mask) ==
    LET blockalign == (channels * storebits) \div 8
        byterate   == samplerate * blockalign
        mask       == IF channel_mask # <<>> THEN channel_mask[1]
                      ELSE IF channels < 18 THEN Pow2(channels) - 1
                      ELSE 0
    IN  [cbSize               |-> 22,
         nAvgBytesPerSec      |-> AsU32(byterate),
         nBlockAlign          |-> AsU16(blockalign),
         nChannels            |-> AsU16(channels),
         nSamplesPerSec       |-> AsU32(samplerate),
         wBitsPerSample       |-> AsU16(storebits),
         wFormatTag           |-> "WAVE_FORMAT_EXTENSIBLE",
         wValidBitsPerSample  |-> AsU16(validbits),
         SubFormat            |-> IF sample_type = "Float"
                                  THEN "KSDATAFORMAT_SUBTYPE_IEEE_FLOAT"
                                  ELSE "KSDATAFORMAT_SUBTYPE_PCM",
         dwChannelMask        |-> mask]

\* WaveFormat::new: the WAVEFORMATEXTENSIBLE built from the parameters.
WaveFormat_new(storebits, validbits, sample_type, samplerate, channels, channel_mask) ==
    LET blockalign == (channels * storebits) \div 8
        byterate   == samplerate * blockalign
        mask       == IF channel_mask # <<>> THEN channel_mask[1]
                      ELSE IF channels <= 18 THEN Pow2(channels) - 1
                      ELSE 0
    IN  [cbSize               |-> 22,
         nAvgBytesPerSec      |-> AsU32(byterate),
         nBlockAlign          |-> AsU16(blockalign),
         nChannels            |-> AsU16(channels),
         nSamplesPerSec       |-> AsU32(samplerate),
         wBitsPerSample       |-> AsU16(storebits),
         wFormatTag           |-> "WAVE_FORMAT_EXTENSIBLE",
         wValidBitsPerSample  |-> AsU16(validbits),
         SubFormat            |-> IF sample_type = "Float"
                                  THEN "KSDATAFORMAT_SUBTYPE_IEEE_FLOAT"
                                  ELSE "KSDATAFORMAT_SUBTYPE_PCM",
         dwChannelMask        |-> mask]

get_blockalign(wavefmt) ==
    wavefmt.nBlockAlign

\* The formats a caller offers to initialize_client.
Formats ==
    { WaveFormat_new(sb, sb, "Int", 44100, ch, <<>>) :
        sb \in {8, 16}, ch \in 1..MaxChannels }

\* -------------------------------------------------------------- StreamMode
Durations == 1..MaxDuration

StreamMode ==
    [tag : {"PollingShared"}, autoconvert : BOOLEAN, buffer_duration_hns : Durations]
    \cup [tag : {"PollingExclusive"}, buffer_duration_hns : Durations, period_hns : Durations]
    \cup [tag : {"EventsShared"}, autoconvert : BOOLEAN, buffer_duration_hns : Durations]
    \cup [tag : {"EventsExclusive"}, period_hns : Durations]

\* initialize_client, the first match: the share mode of a StreamMode.
StreamShareMode(stream_mode) ==
    IF stream_mode.tag \in {"PollingShared", "EventsShared"} THEN "Shared" ELSE "Exclusive"

\* initialize_client, the second match: the timing mode of a StreamMode.
StreamTiming(stream_mode) ==
    IF stream_mode.tag \in {"PollingShared", "PollingExclusive"} THEN "Polling" ELSE "Events"

\* ------------------------------------------------------------------ engine
\* The outcomes of IAudioClient::Initialize: refused once the client is
\* initialized, otherwise accepted with a buffer of some size or refused.
EngineInitialize ==
    IF engInit
    THEN {[hr |-> "AUDCLNT_E_ALREADY_INITIALIZED", size |-> 0]}
    ELSE {[hr |-> S_OK, size |-> n] : n \in 1..MaxBuffer}
         \cup {[hr |-> e, size |-> 0] :
                 e \in {"AUDCLNT_E_UNSUPPORTED_FORMAT", "AUDCLNT_E_BUFFER_SIZE_NOT_ALIGNED"}}

\* The outcomes of an engine query that needs an initialized client
\* (GetBufferSize, GetCurrentPadding, GetService): one of `values`, or a failure.
EngineQuery(values) ==
    IF ~engInit
    THEN {[hr |-> "AUDCLNT_E_NOT_INITIALIZED", val |-> 0]}
    ELSE {[hr |-> S_OK, val |-> v] : v \in values}
         \cup {[hr |-> "AUDCLNT_E_DEVICE_INVALIDATED", val |-> 0]}

\* The outcomes of IAudioClient::Start / Stop / Reset.
EngineControl(method) ==
    IF ~engInit THEN {"AUDCLNT_E_NOT_INITIALIZED"}
    ELSE IF method = "Start" /\ engRunning THEN {"AUDCLNT_E_NOT_STOPPED"}
    ELSE IF method = "Reset" /\ engRunning THEN {"AUDCLNT_E_NOT_STOPPED"}
    ELSE {S_OK, "AUDCLNT_E_DEVICE_INVALIDATED"}

\* ------------------------------------------------------- initialize_client
\* A variant without the (Render, Capture, Exclusive) arm.
DirectionFlags_NoExclusiveArm(self_direction, requested, share) ==
    IF self_direction = "Render" /\ requested = "Capture"
    THEN [err |-> "", flags |-> {"AUDCLNT_STREAMFLAGS_LOOPBACK"}]
    ELSE IF self_direction = "Capture" /\ requested = "Render"
    THEN [err |-> "RenderToCaptureDevice", flags |-> {}]
    ELSE [err |-> "", flags |-> {}]

\* A variant without the (Capture, Render, _) arm.
DirectionFlags_NoRenderArm(self_direction, requested, share) ==
    IF self_direction = "Render" /\ requested = "Capture" /\ share = "Shared"
    THEN [err |-> "", flags |-> {"AUDCLNT_STREAMFLAGS_LOOPBACK"}]
    ELSE IF self_direction = "Render" /\ requested = "Capture" /\ share = "Exclusive"
    THEN [err |-> "LoopbackWithExclusiveMode", flags |-> {}]
    ELSE [err |-> "", flags |-> {}]

\* A variant whose (Render, Capture, Shared) arm sets no flag.
DirectionFlags_NoLoopbackFlag(self_direction, requested, share) ==
    IF self_direction = "Render" /\ requested = "Capture" /\ share = "Shared"
    THEN [err |-> "", flags |-> {}]
    ELSE IF self_direction = "Render" /\ requested = "Capture" /\ share = "Exclusive"
    THEN [err |-> "LoopbackWithExclusiveMode", flags |-> {}]
    ELSE IF self_direction = "Capture" /\ requested = "Render"
    THEN [err |-> "RenderToCaptureDevice", flags |-> {}]
    ELSE [err |-> "", flags |-> {}]

\* The match on (self.direction, direction, sharemode): the loopback flag,
\* or the error returned before any engine call.
DirectionFlags(self_direction, requested, share) ==
    IF self_direction = "Render" /\ requested = "Capture" /\ share = "Shared"
    THEN [err |-> "", flags |-> {"AUDCLNT_STREAMFLAGS_LOOPBACK"}]
    ELSE IF self_direction = "Render" /\ requested = "Capture" /\ share = "Exclusive"
    THEN [err |-> "LoopbackWithExclusiveMode", flags |-> {}]
    ELSE IF self_direction = "Capture" /\ requested = "Render"
    THEN [err |-> "RenderToCaptureDevice", flags |-> {}]
    ELSE [err |-> "", flags |-> {}]

\* A variant that adds the conversion flags in every shared mode.
AutoconvertFlags_IgnoreOption(stream_mode) ==
    IF stream_mode.tag \in {"PollingShared", "EventsShared"}
    THEN {"AUDCLNT_STREAMFLAGS_AUTOCONVERTPCM", "AUDCLNT_STREAMFLAGS_SRC_DEFAULT_QUALITY"}
    ELSE {}

\* The match on stream_mode that adds the conversion flags.
AutoconvertFlags(stream_mode) ==
    IF stream_mode.tag \in {"PollingShared", "EventsShared"} /\ stream_mode.autoconvert
    THEN {"AUDCLNT_STREAMFLAGS_AUTOCONVERTPCM", "AUDCLNT_STREAMFLAGS_SRC_DEFAULT_QUALITY"}
    ELSE {}

\* if timing == TimingMode::Events { streamflags |= EVENTCALLBACK }
TimingFlags(timing) ==
    IF timing = "Events" THEN {"AUDCLNT_STREAMFLAGS_EVENTCALLBACK"} ELSE {}

\* let (period, buffer_duration) = match stream_mode { ... }
PeriodAndDuration(stream_mode) ==
    CASE stream_mode.tag = "PollingShared" ->
            [period |-> 0, buffer_duration |-> stream_mode.buffer_duration_hns]
      [] stream_mode.tag = "EventsShared" ->
            [period |-> 0, buffer_duration |-> stream_mode.buffer_duration_hns]
      [] stream_mode.tag = "PollingExclusive" ->
            [period |-> stream_mode.period_hns,
             buffer_duration |-> stream_mode.buffer_duration_hns]
      [] stream_mode.tag = "EventsExclusive" ->
            [period |-> stream_mode.period_hns, buffer_duration |-> stream_mode.period_hns]

\* The client's fields as a record.
Self ==
    [direction |-> direction, sharemode |-> sharemode, timingmode |-> timingmode,
     bytes_per_frame |-> bytes_per_frame]

\* A variant that assigns the fields before looking at the engine's answer.
FieldsAfterInitialize_Early(self, hr, wavefmt, requested, share, timing) ==
    [direction |-> requested, sharemode |-> share, timingmode |-> timing,
     bytes_per_frame |-> <<get_blockalign(wavefmt)>>]

\* A variant that does not store the block align of the format.
FieldsAfterInitialize_NoBlockAlign(self, hr, wavefmt, requested, share, timing) ==
    IF hr # S_OK THEN self
    ELSE [direction |-> requested, sharemode |-> share, timingmode |-> timing,
          bytes_per_frame |-> self.bytes_per_frame]

\* self.client.Initialize(...)?; followed by the four assignments: the fields
\* after the call, given the engine's answer hr.
FieldsAfterInitialize(self, hr, wavefmt, requested, share, timing) ==
    IF hr # S_OK THEN self
    ELSE [direction |-> requested, sharemode |-> share, timingmode |-> timing,
          bytes_per_frame |-> <<get_blockalign(wavefmt)>>]

\* AudioClient::initialize_client(wavefmt, direction, stream_mode)
initialize_client ==
    \E wavefmt \in Formats, requested \in Direction, stream_mode \in StreamMode :
        LET share  == StreamShareMode(stream_mode)
            timing == StreamTiming(stream_mode)
            chk    == DirectionFlags(direction, requested, share)
            flags  == chk.flags \cup AutoconvertFlags(stream_mode) \cup TimingFlags(timing)
            pd     == PeriodAndDuration(stream_mode)
        IN  /\ op' = "initialize_client"
            /\ req' = [wavefmt |-> wavefmt, direction |-> requested, stream_mode |-> stream_mode]
            /\ UNCHANGED <<flow, index, session, origin, devdir, engRunning, rport, cport, deque>>
            /\ IF chk.err # ""
               THEN /\ res' = Err(chk.err)
                    /\ calls' = <<>>
                    /\ io' = NoIO
                    /\ UNCHANGED <<direction, sharemode, timingmode, bytes_per_frame,
                                   engInit, engBufferSize>>
               ELSE \E out \in EngineInitialize :
                    LET after == FieldsAfterInitialize(Self, out.hr, wavefmt, requested,
                                                       share, timing)
                    IN  /\ calls' = <<"Initialize">>
                        /\ io' = [mode |-> share, streamflags |-> flags,
                                  buffer_duration |-> pd.buffer_duration,
                                  period |-> pd.period,
                                  blockalign |-> get_blockalign(wavefmt), hr |-> out.hr]
                        /\ res' = IF out.hr = S_OK THEN Ok(0) ELSE Windows(out.hr)
                        /\ direction' = after.direction
                        /\ sharemode' = after.sharemode
                        /\ timingmode' = after.timingmode
                        /\ bytes_per_frame' = after.bytes_per_frame
                        /\ engInit' = (engInit \/ out.hr = S_OK)
                        /\ engBufferSize' = IF out.hr = S_OK THEN out.size ELSE engBufferSize

\* ------------------------------------------------------------ buffer queries
\* A variant that reports every engine failure as ClientNotInit.
Forward_ClientNotInit(out) ==
    IF out.hr = S_OK THEN Ok(out.val) ELSE Err("ClientNotInit")

\* A wrapper that forwards one engine query: `let v = unsafe { call()? }; Ok(v)`.
Forward(out) ==
    IF out.hr = S_OK THEN Ok(out.val) ELSE Windows(out.hr)

\* AudioClient::get_buffer_size
get_buffer_size ==
    \E out \in EngineQuery({engBufferSize}) :
        /\ op' = "get_buffer_size"
        /\ req' = NoReq
        /\ calls' = <<"GetBufferSize">>
        /\ io' = [buffer |-> out]
        /\ res' = Forward(out)
        /\ UNCHANGED <<flow, index, session, clientVars, rport, cport, deque>>

\* AudioClient::get_current_padding
get_current_padding ==
    \E out \in EngineQuery(0..engBufferSize) :
        /\ op' = "get_current_padding"
        /\ req' = NoReq
        /\ calls' = <<"GetCurrentPadding">>
        /\ io' = [padding |-> out]
        /\ res' = Forward(out)
        /\ UNCHANGED <<flow, index, session, clientVars, rport, cport, deque>>

\* A variant without the (Exclusive, Events) arm: always size minus padding.
AvailableSpace_AlwaysSubtract(share, timing, pad, buf) ==
    IF share # "None" /\ timing # "None"
    THEN IF pad.hr # S_OK
         THEN [res |-> Windows(pad.hr), calls |-> <<"GetCurrentPadding">>]
         ELSE IF buf.hr # S_OK
         THEN [res |-> Windows(buf.hr), calls |-> <<"GetCurrentPadding", "GetBufferSize">>]
         ELSE [res |-> Ok(buf.val - pad.val),
               calls |-> <<"GetCurrentPadding", "GetBufferSize">>]
    ELSE [res |-> Err("ClientNotInit"), calls |-> <<>>]

\* A variant that returns the buffer size in every initialized mode.
AvailableSpace_IgnorePadding(share, timing, pad, buf) ==
    IF share # "None" /\ timing # "None"
    THEN [res |-> Forward(buf), calls |-> <<"GetBufferSize">>]
    ELSE [res |-> Err("ClientNotInit"), calls |-> <<>>]

\* The body of get_available_space_in_frames: the match on (sharemode,
\* timingmode), given what the engine answers to GetCurrentPadding (pad) and to
\* GetBufferSize (buf).  Returns the result and the engine calls made.
AvailableSpace(share, timing, pad, buf) ==
    IF share = "Exclusive" /\ timing = "Events"
    THEN [res |-> Forward(buf), calls |-> <<"GetBufferSize">>]
    ELSE IF share # "None" /\ timing # "None"
    THEN IF pad.hr # S_OK
         THEN [res |-> Windows(pad.hr), calls |-> <<"GetCurrentPadding">>]
         ELSE IF buf.hr # S_OK
         THEN [res |-> Windows(buf.hr), calls |-> <<"GetCurrentPadding", "GetBufferSize">>]
         ELSE [res |-> Ok(buf.val - pad.val),
               calls |-> <<"GetCurrentPadding", "GetBufferSize">>]
    ELSE [res |-> Err("ClientNotInit"), calls |-> <<>>]

\* AudioClient::get_available_space_in_frames
get_available_space_in_frames ==
    \E pad \in EngineQuery(0..engBufferSize), buf \in EngineQuery({engBufferSize}) :
        LET r == AvailableSpace(sharemode, timingmode, pad, buf)
        IN  /\ op' = "get_available_space_in_frames"
            /\ req' = NoReq
            /\ calls' = r.calls
            /\ io' = [padding |-> pad, buffer |-> buf]
            /\ res' = r.res
            /\ UNCHANGED <<flow, index, session, clientVars, rport, cport, deque>>

\* ------------------------------------------------------------ stream control
\* AudioClient::start_stream / stop_stream / reset_stream
StreamControl(name, method) ==
    \E hr \in EngineControl(method) :
        /\ op' = name
        /\ req' = NoReq
        /\ calls' = <<method>>
        /\ io' = NoIO
        /\ res' = IF hr = S_OK THEN Ok(0) ELSE Windows(hr)
        /\ engRunning' = IF hr # S_OK THEN engRunning
                         ELSE IF method = "Start" THEN TRUE
                         ELSE IF method = "Stop" THEN FALSE
                         ELSE engRunning
        /\ UNCHANGED <<flow, index, session, origin, devdir, direction, sharemode, timingmode,
                       bytes_per_frame, engInit, engBufferSize, rport, cport, deque>>

start_stream ==
    StreamControl("start_stream", "Start")

stop_stream ==
    StreamControl("stop_stream", "Stop")

reset_stream ==
    StreamControl("reset_stream", "Reset")

\* ----------------------------------------------------------- port acquisition
\* self.bytes_per_frame.unwrap_or_default()
unwrap_or_default(opt) ==
    IF opt = <<>> THEN 0 ELSE opt[1]

NoRenderPort == [exists |-> FALSE, bytes_per_frame |-> 0]

NoCapturePort == [exists |-> FALSE, sharemode |-> "None", bytes_per_frame |-> 0]

\* AudioClient::get_audiorenderclient
get_audiorenderclient ==
    \E out \in EngineQuery({0}) :
        /\ op' = "get_audiorenderclient"
        /\ req' = NoReq
        /\ calls' = <<"GetService">>
        /\ io' = NoIO
        /\ res' = Forward(out)
        /\ rport' = IF out.hr = S_OK
                    THEN [exists |-> TRUE,
                          bytes_per_frame |-> unwrap_or_default(bytes_per_frame)]
                    ELSE rport
        /\ UNCHANGED <<flow, index, session, clientVars, cport, deque>>

\* AudioClient::get_audiocaptureclient
get_audiocaptureclient ==
    \E out \in EngineQuery({0}) :
        /\ op' = "get_audiocaptureclient"
        /\ req' = NoReq
        /\ calls' = <<"GetService">>
        /\ io' = NoIO
        /\ res' = Forward(out)
        /\ cport' = IF out.hr = S_OK
                    THEN [exists |-> TRUE, sharemode |-> sharemode,
                          bytes_per_frame |-> unwrap_or_default(bytes_per_frame)]
                    ELSE cport
        /\ UNCHANGED <<flow, index, session, clientVars, rport, deque>>

\* ------------------------------------------------------- the client's machine
\* Device::get_iaudioclient (fields None, direction of the device), or
\* AudioClient::new_application_loopback_client (Render, Some(Shared)).
Init ==
    /\ origin \in {"get_iaudioclient", "new_application_loopback_client"}
    /\ devdir \in Direction
    /\ origin = "new_application_loopback_client" => devdir = "Render"
    /\ direction = devdir
    /\ sharemode = IF origin = "get_iaudioclient" THEN "None" ELSE "Shared"
    /\ timingmode = "None"
    /\ bytes_per_frame = <<>>
    /\ engInit = FALSE
    /\ engBufferSize = 0
    /\ engRunning = FALSE
    /\ rport = NoRenderPort
    /\ cport = NoCapturePort
    /\ deque = <<>>
    /\ session = NoSession
    /\ index = 0
    /\ flow = NoFlow
    /\ op = "none"
    /\ req = NoReq
    /\ res = Ok(0)
    /\ calls = <<>>
    /\ io = NoIO

Next ==
    \/ initialize_client
    \/ get_buffer_size
    \/ get_current_padding
    \/ get_available_space_in_frames
    \/ start_stream
    \/ stop_stream
    \/ reset_stream
    \/ get_audiorenderclient
    \/ get_audiocaptureclient

Spec == Init /\ [][Next]_vars

\* ------------------------------------------------- properties of the client
\* initialize_client has not yet succeeded on the client.
NotYetInitialized ==
    timingmode = "None"

UninitQueries ==
    {"get_buffer_size", "get_current_padding", "get_audiorenderclient",
     "get_audiocaptureclient"}

\* C1, as claimed: on a client from Device::get_iaudioclient on which
\* initialize_client has not yet succeeded, get_buffer_size,
\* get_current_padding, get_available_space_in_frames, get_audiorenderclient
\* and get_audiocaptureclient each return ClientNotInit.
C1_AllReturnClientNotInit ==
    (origin = "get_iaudioclient" /\ NotYetInitialized
        /\ op \in UninitQueries \cup {"get_available_space_in_frames"})
    => res = Err("ClientNotInit")

\* C1, amended: on such a client only get_available_space_in_frames returns
\* ClientNotInit, and it does so without calling the engine; the other four do
\* not look at the client's fields: they call the engine and return its refusal
\* as WasapiError::Windows.  None of the five returns a value or a port.
C1_UninitializedAccess ==
    (origin = "get_iaudioclient" /\ NotYetInitialized) =>
        /\ op = "get_available_space_in_frames"
             => (res = Err("ClientNotInit") /\ calls = <<>>)
        /\ op \in UninitQueries
             => (res = Windows("AUDCLNT_E_NOT_INITIALIZED") /\ Len(calls) = 1)
        /\ ~rport.exists
        /\ ~cport.exists

C1_Witness ==
    /\ origin = "get_iaudioclient"
    /\ NotYetInitialized
    /\ op = "get_buffer_size"
    /\ res.err = "Windows"

\* C2: whenever initialize_client returns an error (a validation error or an
\* engine Initialize failure), direction, sharemode, timingmode and
\* bytes_per_frame are exactly what they were before the call.
C2_FailedInitializeKeepsFields ==
    [][(op' = "initialize_client" /\ res'.status = "Err")
         => /\ direction' = direction
            /\ sharemode' = sharemode
            /\ timingmode' = timingmode
            /\ bytes_per_frame' = bytes_per_frame]_vars

C2_Witness ==
    /\ op = "initialize_client"
    /\ res = Windows("AUDCLNT_E_BUFFER_SIZE_NOT_ALIGNED")
    /\ calls = <<"Initialize">>
    /\ sharemode = "None"
    /\ bytes_per_frame = <<>>

\* C3, as claimed: on a client whose device direction is Render,
\* initialize_client with Direction::Capture and an exclusive stream mode
\* fails with LoopbackWithExclusiveMode and never calls the engine.
C3_ByDeviceDirection ==
    (op = "initialize_client" /\ devdir = "Render" /\ req.direction = "Capture"
        /\ StreamShareMode(req.stream_mode) = "Exclusive")
    => (res = Err("LoopbackWithExclusiveMode") /\ calls = <<>>)

\* C3, amended: on a client whose direction field is Render (the device's
\* direction until an initialize_client succeeds), initialize_client with
\* Direction::Capture and an exclusive stream mode fails with
\* LoopbackWithExclusiveMode and the engine's Initialize is not called.
C3_LoopbackExclusiveRejected ==
    [][(op' = "initialize_client" /\ direction = "Render" /\ req'.direction = "Capture"
          /\ StreamShareMode(req'.stream_mode) = "Exclusive")
         => (res' = Err("LoopbackWithExclusiveMode") /\ calls' = <<>>)]_vars

C3_Witness ==
    /\ op = "initialize_client"
    /\ direction = "Render"
    /\ req.direction = "Capture"
    /\ req.stream_mode.tag = "EventsExclusive"
    /\ res = Err("LoopbackWithExclusiveMode")

\* The engine's Initialize may be reached from (selfdir, requested, share).
Reaches(selfdir, requested, share) ==
    \/ selfdir = requested
    \/ (selfdir = "Render" /\ requested = "Capture" /\ share = "Shared")

\* C4, as claimed: initialize_client reaches the engine's Initialize only when
\* the device direction and the requested direction are equal or the
\* combination is (device Render, requested Capture, Shared); a Capture device
\* asked for Render fails with RenderToCaptureDevice without an engine call.
C4_ByDeviceDirection ==
    op = "initialize_client" =>
        /\ calls # <<>>
             => Reaches(devdir, req.direction, StreamShareMode(req.stream_mode))
        /\ (devdir = "Capture" /\ req.direction = "Render")
             => (res = Err("RenderToCaptureDevice") /\ calls = <<>>)

\* C4, amended: the same with the client's direction field in the place of the
\* device direction: Initialize is reached only when the field equals the
\* requested direction or the combination is (Render, Capture, Shared), and a
\* client whose field is Capture asked for Render fails with
\* RenderToCaptureDevice in all four stream modes without an engine call.
C4_DirectionTable ==
    [][op' = "initialize_client" =>
         /\ calls' # <<>>
              => Reaches(direction, req'.direction, StreamShareMode(req'.stream_mode))
         /\ (direction = "Capture" /\ req'.direction = "Render")
              => (res' = Err("RenderToCaptureDevice") /\ calls' = <<>>)
         /\ (devdir = "Capture" /\ req'.direction = "Render")
              => (res' = Err("RenderToCaptureDevice") /\ calls' = <<>>)]_vars

C4_Witness ==
    /\ op = "initialize_client"
    /\ devdir = "Capture"
    /\ req.direction = "Render"
    /\ req.stream_mode.tag = "PollingShared"
    /\ res = Err("RenderToCaptureDevice")
    /\ calls = <<>>

DataLength(e, received, expected) ==
    [status |-> "Err", err |-> e, hresult |-> "", val |-> 0,
     received |-> received, expected |-> expected]

\* Ok((nbr_frames_returned, buffer_info)) and Ok(buffer_info)
OkRead(frames, info) ==
    [status |-> "Ok", err |-> "", hresult |-> "", val |-> frames, info |-> info]

\* .unwrap() on an Err: the thread panics.
Panic(hr) ==
    [status |-> "Panic", err |-> "unwrap", hresult |-> hr, val |-> 0]

\* BufferInfo::none()
BufferInfo_none ==
    [flags |-> {}, index |-> 0, timestamp |-> 0]

\* BufferInfo::new(flags, index, timestamp) for what the engine's GetBuffer
\* may report with a packet.
EngineInfos ==
    {BufferInfo_none,
     [flags |-> {"AUDCLNT_BUFFERFLAGS_SILENT"}, index |-> 1, timestamp |-> 1]}

\* buffer_flags: Option<BufferFlags> of the two write operations.
BufferFlagArgs ==
    {<<>>, <<{"AUDCLNT_BUFFERFLAGS_SILENT"}>>}

\* match buffer_flags { Some(bflags) => bflags.to_u32(), None => 0 }
FlagsArg(buffer_flags) ==
    IF buffer_flags = <<>> THEN {} ELSE buffer_flags[1]

\* A byte sequence of len bytes that alternates, starting with 1 - k.
Pattern(len, k) ==
    [i \in 1..len |-> (i + k) % 2]

\* The caller's slices and deques: both patterns of every length up to n.
Slices(n) ==
    {Pattern(len, k) : len \in 0..n, k \in Byte}

\* The first n elements of s, and s without them.
Take(s, n) ==
    SubSeq(s, 1, n)

Drop(s, n) ==
    SubSeq(s, n + 1, Len(s))

\* The outcomes of IAudioRenderClient::GetBuffer and of the two ReleaseBuffer.
EngineGetBuffer ==
    {S_OK, "AUDCLNT_E_BUFFER_TOO_LARGE"}

EngineReleaseBuffer ==
    {S_OK, "AUDCLNT_E_DEVICE_INVALIDATED"}

\* The packets IAudioCaptureClient::GetBuffer may hand out for a port of
\* stride bpf: no frame (AUDCLNT_S_BUFFER_EMPTY) or up to MaxFrames frames of
\* one of two byte patterns, with its BufferInfo; or a failure.
EnginePackets(bpf) ==
    {[hr |-> S_OK, frames |-> f, bytes |-> Pattern(f * bpf, k), info |-> inf] :
        f \in 0..MaxFrames, k \in Byte, inf \in EngineInfos}
    \cup {[hr |-> "AUDCLNT_E_DEVICE_INVALIDATED", frames |-> 0, bytes |-> <<>>,
           info |-> BufferInfo_none]}

\* What a port operation did: its result, the engine calls it made, the bytes
\* it copied into the engine's buffer, the frame count it gave to
\* ReleaseBuffer (<<>> when not called), and the caller's slice and deque after.
Outcome(result, engine_calls, written, released, out, queue) ==
    [res |-> result, calls |-> engine_calls, written |-> written,
     released |-> released, out |-> out, deque |-> queue]

\* A variant that only refuses data that is too short.
WriteToDevice_TooShortOnly(bpf, nbr_frames, data, buffer_flags, gb, rb) ==
    LET nbr_bytes == nbr_frames * bpf
    IN  IF nbr_frames = 0 THEN Outcome(Ok(0), <<>>, <<>>, <<>>, data, <<>>)
        ELSE IF nbr_bytes > Len(data)
        THEN Outcome(DataLength("DataLengthMismatch", Len(data), nbr_bytes),
                     <<>>, <<>>, <<>>, data, <<>>)
        ELSE IF gb # S_OK
        THEN Outcome(Windows(gb), <<"GetBuffer">>, <<>>, <<>>, data, <<>>)
        ELSE IF rb # S_OK
        THEN Outcome(Windows(rb), <<"GetBuffer", "ReleaseBuffer">>, Take(data, nbr_bytes),
                     <<nbr_frames>>, data, <<>>)
        ELSE Outcome(Ok(0), <<"GetBuffer", "ReleaseBuffer">>, Take(data, nbr_bytes),
                     <<nbr_frames>>, data, <<>>)

\* AudioRenderClient::write_to_device, given the engine's answers to GetBuffer
\* (gb) and to ReleaseBuffer (rb).
WriteToDevice(bpf, nbr_frames, data, buffer_flags, gb, rb) ==
    LET nbr_bytes == nbr_frames * bpf
    IN  IF nbr_frames = 0 THEN Outcome(Ok(0), <<>>, <<>>, <<>>, data, <<>>)
        ELSE IF nbr_bytes # Len(data)
        THEN Outcome(DataLength("DataLengthMismatch", Len(data), nbr_bytes),
                     <<>>, <<>>, <<>>, data, <<>>)
        ELSE IF gb # S_OK
        THEN Outcome(Windows(gb), <<"GetBuffer">>, <<>>, <<>>, data, <<>>)
        ELSE IF rb # S_OK
        THEN Outcome(Windows(rb), <<"GetBuffer", "ReleaseBuffer">>, data,
                     <<nbr_frames>>, data, <<>>)
        ELSE Outcome(Ok(0), <<"GetBuffer", "ReleaseBuffer">>, data,
                     <<nbr_frames>>, data, <<>>)

\* A variant that pops the bytes before it asks the engine for the buffer.
WriteFromDeque_PopFirst(bpf, nbr_frames, queue, buffer_flags, gb, rb) ==
    LET nbr_bytes == nbr_frames * bpf
    IN  IF nbr_frames = 0 THEN Outcome(Ok(0), <<>>, <<>>, <<>>, <<>>, queue)
        ELSE IF nbr_bytes > Len(queue)
        THEN Outcome(DataLength("DataLengthTooShort", Len(queue), nbr_bytes),
                     <<>>, <<>>, <<>>, <<>>, queue)
        ELSE IF gb # S_OK
        THEN Outcome(Windows(gb), <<"GetBuffer">>, <<>>, <<>>, <<>>, Drop(queue, nbr_bytes))
        ELSE IF rb # S_OK
        THEN Outcome(Windows(rb), <<"GetBuffer", "ReleaseBuffer">>, Take(queue, nbr_bytes),
                     <<nbr_frames>>, <<>>, Drop(queue, nbr_bytes))
        ELSE Outcome(Ok(0), <<"GetBuffer", "ReleaseBuffer">>, Take(queue, nbr_bytes),
                     <<nbr_frames>>, <<>>, Drop(queue, nbr_bytes))

\* AudioRenderClient::write_to_device_from_deque: the loop
\* `for element in bufferslice.iter_mut() { *element = data.pop_front().unwrap() }`
\* moves the first nbr_bytes bytes of the deque, in order, into the buffer.
WriteFromDeque(bpf, nbr_frames, queue, buffer_flags, gb, rb) ==
    LET nbr_bytes == nbr_frames * bpf
    IN  IF nbr_frames = 0 THEN Outcome(Ok(0), <<>>, <<>>, <<>>, <<>>, queue)
        ELSE IF nbr_bytes > Len(queue)
        THEN Outcome(DataLength("DataLengthTooShort", Len(queue), nbr_bytes),
                     <<>>, <<>>, <<>>, <<>>, queue)
        ELSE IF gb # S_OK
        THEN Outcome(Windows(gb), <<"GetBuffer">>, <<>>, <<>>, <<>>, queue)
        ELSE IF rb # S_OK
        THEN Outcome(Windows(rb), <<"GetBuffer", "ReleaseBuffer">>, Take(queue, nbr_bytes),
                     <<nbr_frames>>, <<>>, Drop(queue, nbr_bytes))
        ELSE Outcome(Ok(0), <<"GetBuffer", "ReleaseBuffer">>, Take(queue, nbr_bytes),
                     <<nbr_frames>>, <<>>, Drop(queue, nbr_bytes))

\* A variant that copies the packet without comparing it with the slice.
ReadFromDevice_NoCapacityCheck(bpf, data, pk, rb) ==
    LET data_len_in_frames == Len(data) \div bpf
        len_in_bytes == pk.frames * bpf
    IN  IF data_len_in_frames = 0
        THEN Outcome(OkRead(0, BufferInfo_none), <<>>, <<>>, <<>>, data, <<>>)
        ELSE IF pk.hr # S_OK
        THEN Outcome(Windows(pk.hr), <<"GetBuffer">>, <<>>, <<>>, data, <<>>)
        ELSE IF rb # S_OK
        THEN Outcome(Windows(rb), <<"GetBuffer", "ReleaseBuffer">>, <<>>, <<pk.frames>>,
                     pk.bytes \o Drop(data, len_in_bytes), <<>>)
        ELSE Outcome(OkRead(pk.frames, pk.info), <<"GetBuffer", "ReleaseBuffer">>, <<>>,
                     <<pk.frames>>, pk.bytes \o Drop(data, len_in_bytes), <<>>)

\* A variant that returns an empty packet without releasing it.
ReadFromDevice_NoReleaseOnEmpty(bpf, data, pk, rb) ==
    LET data_len_in_frames == Len(data) \div bpf
        len_in_bytes == pk.frames * bpf
    IN  IF data_len_in_frames = 0
        THEN Outcome(OkRead(0, BufferInfo_none), <<>>, <<>>, <<>>, data, <<>>)
        ELSE IF pk.hr # S_OK
        THEN Outcome(Windows(pk.hr), <<"GetBuffer">>, <<>>, <<>>, data, <<>>)
        ELSE IF pk.frames = 0
        THEN Outcome(OkRead(0, pk.info), <<"GetBuffer">>, <<>>, <<>>, data, <<>>)
        ELSE IF data_len_in_frames < pk.frames
        THEN Outcome(IF rb # S_OK THEN Windows(rb)
                     ELSE DataLength("DataLengthTooShort", data_len_in_frames, pk.frames),
                     <<"GetBuffer", "ReleaseBuffer">>, <<>>, <<pk.frames>>, data, <<>>)
        ELSE Outcome(IF rb # S_OK THEN Windows(rb) ELSE OkRead(pk.frames, pk.info),
                     <<"GetBuffer", "ReleaseBuffer">>, <<>>, <<pk.frames>>,
                     pk.bytes \o Drop(data, len_in_bytes), <<>>)

\* A variant that gives the packet back unread (ReleaseBuffer(0)) when the slice
\* is too short.
ReadFromDevice_KeepOnShort(bpf, data, pk, rb) ==
    LET data_len_in_frames == Len(data) \div bpf
        len_in_bytes == pk.frames * bpf
    IN  IF data_len_in_frames = 0
        THEN Outcome(OkRead(0, BufferInfo_none), <<>>, <<>>, <<>>, data, <<>>)
        ELSE IF pk.hr # S_OK
        THEN Outcome(Windows(pk.hr), <<"GetBuffer">>, <<>>, <<>>, data, <<>>)
        ELSE IF pk.frames = 0
        THEN Outcome(IF rb # S_OK THEN Windows(rb) ELSE OkRead(0, pk.info),
                     <<"GetBuffer", "ReleaseBuffer">>, <<>>, <<pk.frames>>, data, <<>>)
        ELSE IF data_len_in_frames < pk.frames
        THEN Outcome(IF rb # S_OK THEN Windows(rb)
                     ELSE DataLength("DataLengthTooShort", data_len_in_frames, pk.frames),
                     <<"GetBuffer", "ReleaseBuffer">>, <<>>, <<0>>, data, <<>>)
        ELSE Outcome(IF rb # S_OK THEN Windows(rb) ELSE OkRead(pk.frames, pk.info),
                     <<"GetBuffer", "ReleaseBuffer">>, <<>>, <<pk.frames>>,
                     pk.bytes \o Drop(data, len_in_bytes), <<>>)

\* AudioCaptureClient::read_from_device, given the packet the engine's
\* GetBuffer hands out (pk) and the engine's answer to ReleaseBuffer (rb).
\* data[..len_in_bytes].copy_from_slice(bufferslice) replaces the head of the
\* slice and leaves its tail.
ReadFromDevice(bpf, data, pk, rb) ==
    LET data_len_in_frames == Len(data) \div bpf
        len_in_bytes == pk.frames * bpf
    IN  IF bpf = 0
        THEN Outcome(Panic("attempt to divide by zero"), <<>>, <<>>, <<>>, data, <<>>)
        ELSE IF data_len_in_frames = 0
        THEN Outcome(OkRead(0, BufferInfo_none), <<>>, <<>>, <<>>, data, <<>>)
        ELSE IF pk.hr # S_OK
        THEN Outcome(Windows(pk.hr), <<"GetBuffer">>, <<>>, <<>>, data, <<>>)
        ELSE IF pk.frames = 0
        THEN Outcome(IF rb # S_OK THEN Windows(rb) ELSE OkRead(0, pk.info),
                     <<"GetBuffer", "ReleaseBuffer">>, <<>>, <<pk.frames>>, data, <<>>)
        ELSE IF data_len_in_frames < pk.frames
        THEN Outcome(IF rb # S_OK THEN Windows(rb)
                     ELSE DataLength("DataLengthTooShort", data_len_in_frames, pk.frames),
                     <<"GetBuffer", "ReleaseBuffer">>, <<>>, <<pk.frames>>, data, <<>>)
        ELSE Outcome(IF rb # S_OK THEN Windows(rb) ELSE OkRead(pk.frames, pk.info),
                     <<"GetBuffer", "ReleaseBuffer">>, <<>>, <<pk.frames>>,
                     pk.bytes \o Drop(data, len_in_bytes), <<>>)

\* AudioCaptureClient::read_from_device_to_deque: an empty packet is returned
\* without ReleaseBuffer; a failing ReleaseBuffer is unwrapped.
ReadToDeque(bpf, queue, pk, rb) ==
    IF pk.hr # S_OK
    THEN Outcome(Windows(pk.hr), <<"GetBuffer">>, <<>>, <<>>, <<>>, queue)
    ELSE IF pk.frames = 0
    THEN Outcome(OkRead(0, pk.info), <<"GetBuffer">>, <<>>, <<>>, <<>>, queue)
    ELSE Outcome(IF rb # S_OK THEN Panic(rb) ELSE OkRead(0, pk.info),
                 <<"GetBuffer", "ReleaseBuffer">>, <<>>, <<pk.frames>>, <<>>,
                 queue \o pk.bytes)

\* A panic ends the thread that owns the port.
Alive ==
    res.status # "Panic"

\* What the engine answered and was given during a port operation.
PortIO(getbuffer, packet, o) ==
    [getbuffer |-> IF o.calls = <<>> THEN "not called" ELSE getbuffer,
     frames |-> packet.frames, bytes |-> packet.bytes,
     written |-> o.written, released |-> o.released, out |-> o.out]

NoPacket ==
    [hr |-> S_OK, frames |-> 0, bytes |-> <<>>, info |-> BufferInfo_none]

write_to_device ==
    /\ Alive /\ rport.exists
    /\ \E nbr_frames \in 0..MaxFrames, data \in Slices(MaxLen),
          buffer_flags \in BufferFlagArgs, gb \in EngineGetBuffer,
          rb \in EngineReleaseBuffer :
          LET o == WriteToDevice(rport.bytes_per_frame, nbr_frames, data, buffer_flags, gb, rb)
          IN  /\ op' = "write_to_device"
              /\ req' = [nbr_frames |-> nbr_frames, data |-> data,
                         flags |-> FlagsArg(buffer_flags)]
              /\ res' = o.res
              /\ calls' = o.calls
              /\ io' = PortIO(gb, NoPacket, o)
    /\ UNCHANGED <<flow, index, session, clientVars, rport, cport, deque>>

write_to_device_from_deque ==
    /\ Alive /\ rport.exists
    /\ \E nbr_frames \in 0..MaxFrames, buffer_flags \in BufferFlagArgs,
          gb \in EngineGetBuffer, rb \in EngineReleaseBuffer :
          LET o == WriteFromDeque(rport.bytes_per_frame, nbr_frames, deque, buffer_flags, gb, rb)
          IN  /\ op' = "write_to_device_from_deque"
              /\ req' = [nbr_frames |-> nbr_frames, data |-> deque,
                         flags |-> FlagsArg(buffer_flags)]
              /\ res' = o.res
              /\ calls' = o.calls
              /\ io' = PortIO(gb, NoPacket, o)
              /\ deque' = o.deque
    /\ UNCHANGED <<flow, index, session, clientVars, rport, cport>>

read_from_device ==
    /\ Alive /\ cport.exists
    /\ \E data \in Slices(MaxLen), pk \in EnginePackets(cport.bytes_per_frame),
          rb \in EngineReleaseBuffer :
          LET o == ReadFromDevice(cport.bytes_per_frame, data, pk, rb)
          IN  /\ op' = "read_from_device"
              /\ req' = [nbr_frames |-> 0, data |-> data, flags |-> {}]
              /\ res' = o.res
              /\ calls' = o.calls
              /\ io' = PortIO(pk.hr, pk, o)
    /\ UNCHANGED <<flow, index, session, clientVars, rport, cport, deque>>

\* The caller's deque is kept within MaxLen bytes: only packets that fit are
\* drawn.
read_from_device_to_deque ==
    /\ Alive /\ cport.exists
    /\ \E pk \in EnginePackets(cport.bytes_per_frame), rb \in EngineReleaseBuffer :
          LET o == ReadToDeque(cport.bytes_per_frame, deque, pk, rb)
          IN  /\ Len(deque) + Len(pk.bytes) <= MaxLen
              /\ op' = "read_from_device_to_deque"
              /\ req' = [nbr_frames |-> 0, data |-> deque, flags |-> {}]
              /\ res' = o.res
              /\ calls' = o.calls
              /\ io' = PortIO(pk.hr, pk, o)
              /\ deque' = o.deque
    /\ UNCHANGED <<flow, index, session, clientVars, rport, cport>>

\* The outcomes of IAudioCaptureClient::GetNextPacketSize.
EngineNextPacketSize ==
    {[hr |-> S_OK, val |-> n] : n \in 0..MaxFrames}
    \cup {[hr |-> "AUDCLNT_E_DEVICE_INVALIDATED", val |-> 0]}

\* A variant that asks the engine whatever the share mode.
NextPacketSize_AlwaysQuery(share, out) ==
    [res |-> IF out.hr # S_OK THEN Windows(out.hr) ELSE Ok(<<out.val>>),
     calls |-> <<"GetNextPacketSize">>]

\* AudioCaptureClient::get_next_packet_size, given the engine's answer (out).
\* Option<u32> is <<>> for None and <<n>> for Some(n).
NextPacketSize(share, out) ==
    IF share = "Exclusive"
    THEN [res |-> Ok(<<>>), calls |-> <<>>]
    ELSE [res |-> IF out.hr # S_OK THEN Windows(out.hr) ELSE Ok(<<out.val>>),
          calls |-> <<"GetNextPacketSize">>]

get_next_packet_size ==
    /\ Alive /\ cport.exists
    /\ \E out \in EngineNextPacketSize :
          LET o == NextPacketSize(cport.sharemode, out)
          IN  /\ op' = "get_next_packet_size"
              /\ req' = NoReq
              /\ res' = o.res
              /\ calls' = o.calls
              /\ io' = [next |-> IF o.calls = <<>> THEN [hr |-> "not called", val |-> 0]
                                 ELSE out]
    /\ UNCHANGED <<flow, index, session, clientVars, rport, cport, deque>>

\* A client that initialize_client has initialized for one direction, the port
\* get_audiorenderclient or get_audiocaptureclient made from it, and the
\* caller's deque.
InitPort ==
    /\ origin = "get_iaudioclient"
    /\ devdir \in Direction
    /\ direction = devdir
    /\ sharemode \in ShareMode
    /\ timingmode = "Events"
    /\ \E bpf \in 1..MaxBpf :
          /\ bytes_per_frame = <<bpf>>
          /\ rport = IF direction = "Render"
                     THEN [exists |-> TRUE, bytes_per_frame |-> bpf] ELSE NoRenderPort
          /\ cport = IF direction = "Capture"
                     THEN [exists |-> TRUE, sharemode |-> sharemode, bytes_per_frame |-> bpf]
                     ELSE NoCapturePort
    /\ engInit = TRUE
    /\ engBufferSize = MaxBuffer
    /\ engRunning = TRUE
    /\ deque \in Slices(MaxLen)
    /\ session = NoSession
    /\ index = 0
    /\ flow = NoFlow
    /\ op = "none"
    /\ req = NoReq
    /\ res = Ok(0)
    /\ calls = <<>>
    /\ io = NoIO

NextPort ==
    \/ write_to_device
    \/ write_to_device_from_deque
    \/ read_from_device
    \/ read_from_device_to_deque
    \/ get_next_packet_size

SpecPort ==
    InitPort /\ [][NextPort]_vars

\* ------------------------------------------------------------ C7 .. C10

\* How many times an operation called the engine method fn.
Count(fn) ==
    Cardinality({i \in 1..Len(calls) : calls[i] = fn})

\* C7: write_to_device with nbr_frames > 0 and a slice whose length is not
\* nbr_frames * bytes_per_frame fails with DataLengthMismatch (carrying the
\* received and the expected length) before the engine's buffer is acquired
\* or written; with nbr_frames = 0 it returns Ok whatever the slice holds,
\* without calling the engine.
C7_WriteLengthMismatch ==
    op = "write_to_device" =>
        LET expected == req.nbr_frames * rport.bytes_per_frame
        IN  /\ req.nbr_frames = 0 => res = Ok(0) /\ calls = <<>>
            /\ (req.nbr_frames > 0 /\ Len(req.data) # expected) =>
                   /\ res = DataLength("DataLengthMismatch", Len(req.data), expected)
                   /\ calls = <<>>
                   /\ io.written = <<>>

C7_Witness ==
    /\ op = "write_to_device"
    /\ req.nbr_frames > 0
    /\ Len(req.data) > req.nbr_frames * rport.bytes_per_frame
    /\ res.err = "DataLengthMismatch"

\* C8: write_to_device_from_deque with n frames: a deque shorter than
\* n * bytes_per_frame gives DataLengthTooShort and leaves the deque as it
\* was; a failing GetBuffer leaves the deque as it was; after a successful
\* GetBuffer exactly the first n * bytes_per_frame bytes have left the deque
\* and are in the engine's buffer in their order, and the rest of the deque
\* keeps its order.
C8_DequeAllOrNothing ==
    [][op' = "write_to_device_from_deque" /\ rport.exists =>
          LET nbr_bytes == req'.nbr_frames * rport.bytes_per_frame
          IN  /\ nbr_bytes > Len(deque) =>
                     /\ res' = DataLength("DataLengthTooShort", Len(deque), nbr_bytes)
                     /\ deque' = deque
                     /\ calls' = <<>>
              /\ io'.getbuffer # S_OK => deque' = deque /\ io'.written = <<>>
              /\ io'.getbuffer = S_OK =>
                     /\ nbr_bytes <= Len(deque)
                     /\ io'.written = Take(deque, nbr_bytes)
                     /\ deque' = Drop(deque, nbr_bytes)
                     /\ deque = io'.written \o deque']_vars

C8_Witness ==
    /\ op = "write_to_device_from_deque"
    /\ io.getbuffer = S_OK
    /\ io.written # <<>>
    /\ deque # <<>>
    /\ req.data = io.written \o deque

\* C9: read_from_device never reports more frames than the slice can hold and
\* never writes past the slice. A slice shorter than one frame gives
\* (0, BufferInfo::none()) without an engine call; a packet of zero frames is
\* released and (0, info) returned; a packet larger than the slice is released
\* and the call fails, with DataLengthTooShort (capacity, packet size) when
\* the release succeeded, and the slice is left as it was; otherwise the
\* packet replaces the head of the slice and the tail is left as it was.
C9_ReadWithinSlice ==
    op = "read_from_device" =>
        LET capacity == Len(req.data) \div cport.bytes_per_frame
            fetched == io.getbuffer = S_OK
            released == io.released = <<io.frames>> /\ Count("ReleaseBuffer") = 1
        IN  /\ Len(io.out) = Len(req.data)
            /\ res.status = "Ok" => res.val <= capacity
            /\ capacity = 0 => res = OkRead(0, BufferInfo_none) /\ calls = <<>>
            /\ capacity > 0 => Count("GetBuffer") = 1
            /\ (fetched /\ io.frames = 0) =>
                   /\ released
                   /\ res.status = "Ok" => res.val = 0 /\ io.out = req.data
            /\ (fetched /\ io.frames > capacity) =>
                   /\ released
                   /\ res.status = "Err"
                   /\ res.err # "Windows" =>
                          res = DataLength("DataLengthTooShort", capacity, io.frames)
                   /\ io.out = req.data
            /\ (fetched /\ io.frames <= capacity /\ res.status = "Ok") =>
                   /\ res.val = io.frames
                   /\ io.out = io.bytes \o Drop(req.data, Len(io.bytes))

C9_Witness ==
    /\ op = "read_from_device"
    /\ Len(req.data) \div cport.bytes_per_frame > 0
    /\ io.frames > Len(req.data) \div cport.bytes_per_frame
    /\ res.err = "DataLengthTooShort"
    /\ io.out = req.data

PortOps ==
    {"write_to_device", "write_to_device_from_deque",
     "read_from_device", "read_from_device_to_deque"}

\* A request refused for its length.
Rejected ==
    \/ res.err = "DataLengthMismatch"
    \/ op = "write_to_device_from_deque" /\ res.err = "DataLengthTooShort"

\* C10 as stated: in each of the four operations a successful GetBuffer is
\* followed by exactly one ReleaseBuffer before the operation returns.
C10_AlwaysReleased ==
    (op \in PortOps /\ io.getbuffer = S_OK) => Count("ReleaseBuffer") = 1

\* C10: a refused request acquires nothing, no operation calls GetBuffer
\* twice or ReleaseBuffer without a successful GetBuffer, and a successful
\* GetBuffer is followed by exactly one ReleaseBuffer before the operation
\* ends, error returns included - except that read_from_device_to_deque
\* returns a packet of zero frames without calling ReleaseBuffer.
C10_ReleasedUnlessEmptyToDeque ==
    op \in PortOps =>
        /\ Count("GetBuffer") <= 1
        /\ Rejected => calls = <<>>
        /\ io.getbuffer # S_OK => Count("ReleaseBuffer") = 0
        /\ io.getbuffer = S_OK =>
               Count("ReleaseBuffer") =
                   IF op = "read_from_device_to_deque" /\ io.frames = 0 THEN 0 ELSE 1

C10_Witness ==
    /\ op = "read_from_device_to_deque"
    /\ io.getbuffer = S_OK
    /\ io.frames = 0
    /\ res.status = "Ok"
    /\ calls = <<"GetBuffer">>

\* ============================================================ wave formats
\* waveformat.rs: the conversions between descriptors, and the format search
\* of AudioClient::is_supported_exclusive_with_quirks.

\* Speaker positions of the Windows SDK, imported at the top of waveformat.rs.
SPEAKER_FRONT_LEFT == 1
SPEAKER_FRONT_RIGHT == 2
SPEAKER_FRONT_CENTER == 4
SPEAKER_LOW_FREQUENCY == 8
SPEAKER_BACK_LEFT == 16
SPEAKER_BACK_RIGHT == 32
SPEAKER_FRONT_LEFT_OF_CENTER == 64
SPEAKER_FRONT_RIGHT_OF_CENTER == 128
SPEAKER_BACK_CENTER == 256
SPEAKER_SIDE_LEFT == 512
SPEAKER_SIDE_RIGHT == 1024

\* The layouts: each is the bitwise or of distinct positions, which is their sum.
KSAUDIO_SPEAKER_MONO ==
    SPEAKER_FRONT_CENTER

KSAUDIO_SPEAKER_STEREO ==
    SPEAKER_FRONT_LEFT + SPEAKER_FRONT_RIGHT

KSAUDIO_SPEAKER_QUAD ==
    SPEAKER_FRONT_LEFT + SPEAKER_FRONT_RIGHT + SPEAKER_BACK_LEFT + SPEAKER_BACK_RIGHT

KSAUDIO_SPEAKER_SURROUND ==
    SPEAKER_FRONT_LEFT + SPEAKER_FRONT_RIGHT + SPEAKER_FRONT_CENTER + SPEAKER_BACK_CENTER

KSAUDIO_SPEAKER_5POINT1 ==
    SPEAKER_FRONT_LEFT + SPEAKER_FRONT_RIGHT + SPEAKER_FRONT_CENTER
    + SPEAKER_LOW_FREQUENCY + SPEAKER_BACK_LEFT + SPEAKER_BACK_RIGHT

KSAUDIO_SPEAKER_7POINT1 ==
    SPEAKER_FRONT_LEFT + SPEAKER_FRONT_RIGHT + SPEAKER_FRONT_CENTER
    + SPEAKER_LOW_FREQUENCY + SPEAKER_BACK_LEFT + SPEAKER_BACK_RIGHT
    + SPEAKER_FRONT_LEFT_OF_CENTER + SPEAKER_FRONT_RIGHT_OF_CENTER

KSAUDIO_SPEAKER_5POINT1_SURROUND ==
    SPEAKER_FRONT_LEFT + SPEAKER_FRONT_RIGHT + SPEAKER_FRONT_CENTER
    + SPEAKER_LOW_FREQUENCY + SPEAKER_SIDE_LEFT + SPEAKER_SIDE_RIGHT

KSAUDIO_SPEAKER_7POINT1_SURROUND ==
    SPEAKER_FRONT_LEFT + SPEAKER_FRONT_RIGHT + SPEAKER_FRONT_CENTER
    + SPEAKER_LOW_FREQUENCY + SPEAKER_BACK_LEFT + SPEAKER_BACK_RIGHT
    + SPEAKER_SIDE_LEFT + SPEAKER_SIDE_RIGHT

CUSTOM_SPEAKER_2POINT1 ==
    KSAUDIO_SPEAKER_STEREO + SPEAKER_LOW_FREQUENCY

CUSTOM_SPEAKER_4POINT1 ==
    KSAUDIO_SPEAKER_QUAD + SPEAKER_LOW_FREQUENCY

CUSTOM_SPEAKER_4POINT1_SURROUND ==
    KSAUDIO_SPEAKER_SURROUND + SPEAKER_LOW_FREQUENCY

CUSTOM_SPEAKER_6POINT1 ==
    KSAUDIO_SPEAKER_5POINT1 + SPEAKER_BACK_CENTER

CUSTOM_SPEAKER_6POINT1_SURROUND ==
    KSAUDIO_SPEAKER_5POINT1_SURROUND + SPEAKER_BACK_CENTER

\* make_simple_channelmask: one bit per channel up to 18 channels, else zero.
make_simple_channelmask(channels) ==
    IF channels >= 1 /\ channels <= 18 THEN Pow2(channels) - 1 ELSE 0

\* make_channelmasks: the masks to try, the most likely first.
make_channelmasks(channels) ==
    CASE channels = 1 -> <<KSAUDIO_SPEAKER_MONO, make_simple_channelmask(channels), 0>>
      [] channels = 2 -> <<KSAUDIO_SPEAKER_STEREO, 0>>
      [] channels = 3 -> <<CUSTOM_SPEAKER_2POINT1, make_simple_channelmask(channels), 0>>
      [] channels = 4 -> <<KSAUDIO_SPEAKER_QUAD, KSAUDIO_SPEAKER_SURROUND,
                           make_simple_channelmask(channels), 0>>
      [] channels = 5 -> <<CUSTOM_SPEAKER_4POINT1, CUSTOM_SPEAKER_4POINT1_SURROUND,
                           make_simple_channelmask(channels), 0>>
      [] channels = 6 -> <<KSAUDIO_SPEAKER_5POINT1_SURROUND, KSAUDIO_SPEAKER_5POINT1,
                           make_simple_channelmask(channels), 0>>
      [] channels = 7 -> <<CUSTOM_SPEAKER_6POINT1_SURROUND, CUSTOM_SPEAKER_6POINT1,
                           make_simple_channelmask(channels), 0>>
      [] channels = 8 -> <<KSAUDIO_SPEAKER_7POINT1_SURROUND, KSAUDIO_SPEAKER_7POINT1,
                           make_simple_channelmask(channels), 0>>
      [] channels >= 9 /\ channels <= 18 -> <<make_simple_channelmask(channels), 0>>
      [] OTHER -> <<0>>

\* WaveFormat::to_waveformatex: the Format part is kept, the tag is taken from
\* the sub-format, and the extension is zeroed.
ToWaveformatex(wavefmt) ==
    IF wavefmt.SubFormat \notin {"KSDATAFORMAT_SUBTYPE_IEEE_FLOAT", "KSDATAFORMAT_SUBTYPE_PCM"}
    THEN Err("UnsupportedFormat")
    ELSE Ok([cbSize               |-> 0,
             nAvgBytesPerSec      |-> wavefmt.nAvgBytesPerSec,
             nBlockAlign          |-> wavefmt.nBlockAlign,
             nChannels            |-> wavefmt.nChannels,
             nSamplesPerSec       |-> wavefmt.nSamplesPerSec,
             wBitsPerSample       |-> wavefmt.wBitsPerSample,
             wFormatTag           |-> IF wavefmt.SubFormat = "KSDATAFORMAT_SUBTYPE_IEEE_FLOAT"
                                      THEN "WAVE_FORMAT_IEEE_FLOAT" ELSE "WAVE_FORMAT_PCM",
             wValidBitsPerSample  |-> 0,
             SubFormat            |-> "GUID_zeroed",
             dwChannelMask        |-> 0])

\* WaveFormat::from_waveformatex, applied to the Format part of a descriptor:
\* the tag is matched first; the storage bits are then 8 * blockalign /
\* channels, a division that panics for a channel count of zero.
FromWaveformatex(wavefmt) ==
    IF wavefmt.wFormatTag \notin {"WAVE_FORMAT_PCM", "WAVE_FORMAT_IEEE_FLOAT"}
    THEN Err("UnsupportedFormat")
    ELSE IF wavefmt.nChannels = 0
    THEN Panic("attempt to divide by zero")
    ELSE Ok(WaveFormat_new((8 * wavefmt.nBlockAlign) \div wavefmt.nChannels,
                           wavefmt.wBitsPerSample,
                           IF wavefmt.wFormatTag = "WAVE_FORMAT_PCM" THEN "Int" ELSE "Float",
                           wavefmt.nSamplesPerSec,
                           wavefmt.nChannels,
                           <<>>))

\* The engine's answers to the successive IsFormatSupported(EXCLUSIVE) queries
\* of one search for wave_fmt, which asks about the format, at most once about
\* its WAVEFORMATEX form, and once per mask: TRUE when is_supported(..).is_ok().
EngineAnswers(wave_fmt) ==
    [1..(2 + Len(make_channelmasks(wave_fmt.nChannels))) -> BOOLEAN]

\* The loop over the masks: dwChannelMask is overwritten and the engine asked,
\* until it accepts.
RECURSIVE TryMasks(_, _, _, _)
TryMasks(wave_fmt, masks, answers, queries) ==
    IF masks = <<>>
    THEN [res |-> Err("UnsupportedFormat"), queries |-> queries]
    ELSE LET tried == [wave_fmt EXCEPT !.dwChannelMask = Head(masks)]
             asked == Append(queries, tried)
         IN  IF answers[Len(asked)]
             THEN [res |-> Ok(tried), queries |-> asked]
             ELSE TryMasks(tried, Tail(masks), answers, asked)

\* A variant that tries the masks before the WAVEFORMATEX form.
Quirks_MasksFirst(wave_fmt, answers) ==
    IF answers[1]
    THEN [res |-> Ok(wave_fmt), queries |-> <<wave_fmt>>]
    ELSE LET m == TryMasks(wave_fmt, make_channelmasks(wave_fmt.nChannels), answers,
                           <<wave_fmt>>)
             ex == ToWaveformatex(wave_fmt)
         IN  IF m.res.status = "Ok" \/ wave_fmt.nChannels > 2 THEN m
             ELSE IF ex.status # "Ok"
             THEN [res |-> Panic("unwrap on Err(UnsupportedFormat)"),
                   queries |-> m.queries]
             ELSE IF answers[Len(m.queries) + 1]
             THEN [res |-> Ok(ex.val), queries |-> Append(m.queries, ex.val)]
             ELSE [res |-> Err("UnsupportedFormat"), queries |-> Append(m.queries, ex.val)]

\* AudioClient::is_supported_exclusive_with_quirks, given the engine's answers:
\* the result and the formats the engine was asked about, in order.
Quirks(wave_fmt, answers) ==
    IF answers[1]
    THEN [res |-> Ok(wave_fmt), queries |-> <<wave_fmt>>]
    ELSE LET ex == ToWaveformatex(wave_fmt)
         IN  IF wave_fmt.nChannels <= 2 /\ ex.status # "Ok"
             THEN [res |-> Panic("unwrap on Err(UnsupportedFormat)"),
                   queries |-> <<wave_fmt>>]
             ELSE IF wave_fmt.nChannels <= 2 /\ answers[2]
             THEN [res |-> Ok(ex.val), queries |-> <<wave_fmt, ex.val>>]
             ELSE TryMasks(wave_fmt, make_channelmasks(wave_fmt.nChannels), answers,
                           IF wave_fmt.nChannels <= 2 THEN <<wave_fmt, ex.val>>
                           ELSE <<wave_fmt>>)

\* The arguments callers give to WaveFormat::new. The storage sizes are the
\* four the library documents and one that is not a multiple of 8; the channel
\* counts are the small ones and one whose block align does not fit 16 bits.
StoreBits ==
    {8, 12, 16, 24, 32}

SampleRates ==
    {8000, 16000}

ChannelCounts ==
    (1..MaxFmtChannels) \cup {16384}

NewArgs ==
    [storebits : StoreBits, sample_type : SampleType, samplerate : SampleRates,
     channels : ChannelCounts, channel_mask : {<<>>, <<0>>}]

\* What a format operation acted on: the format it was given, the formats it
\* asked the engine about with the engine's answers, and the operations
\* applied since WaveFormat::new.
FormatIO(input, queries, answers, path) ==
    [input |-> input, queries |-> queries,
     answers |-> [i \in 1..Len(queries) |-> answers[i]], path |-> path]

\* A format is at hand: the last operation returned one.
HasFormat ==
    /\ op \in {"new", "to_waveformatex", "from_waveformatex",
               "is_supported_exclusive_with_quirks"}
    /\ res.status = "Ok"
    /\ Len(io.path) < MaxPath

to_waveformatex ==
    /\ HasFormat
    /\ op' = "to_waveformatex"
    /\ res' = ToWaveformatex(res.val)
    /\ calls' = <<>>
    /\ io' = FormatIO(res.val, <<>>, <<>>, Append(io.path, "to_waveformatex"))
    /\ UNCHANGED <<flow, index, session, clientVars, rport, cport, deque, req>>

from_waveformatex ==
    /\ HasFormat
    /\ op' = "from_waveformatex"
    /\ res' = FromWaveformatex(res.val)
    /\ calls' = <<>>
    /\ io' = FormatIO(res.val, <<>>, <<>>, Append(io.path, "from_waveformatex"))
    /\ UNCHANGED <<flow, index, session, clientVars, rport, cport, deque, req>>

is_supported_exclusive_with_quirks ==
    /\ HasFormat
    /\ \E answers \in EngineAnswers(res.val) :
          LET o == Quirks(res.val, answers)
          IN  /\ op' = "is_supported_exclusive_with_quirks"
              /\ res' = o.res
              /\ calls' = [i \in 1..Len(o.queries) |-> "IsFormatSupported"]
              /\ io' = FormatIO(res.val, o.queries, answers,
                                Append(io.path, "is_supported_exclusive_with_quirks"))
    /\ UNCHANGED <<flow, index, session, clientVars, rport, cport, deque, req>>

\* A client fresh from Device::get_iaudioclient, and a format a caller has
\* built with WaveFormat::new.
InitFormat ==
    /\ origin = "get_iaudioclient"
    /\ devdir = "Render"
    /\ direction = devdir
    /\ sharemode = "None"
    /\ timingmode = "None"
    /\ bytes_per_frame = <<>>
    /\ engInit = FALSE
    /\ engBufferSize = 0
    /\ engRunning = FALSE
    /\ rport = NoRenderPort
    /\ cport = NoCapturePort
    /\ deque = <<>>
    /\ session = NoSession
    /\ index = 0
    /\ flow = NoFlow
    /\ op = "new"
    /\ req \in NewArgs
    /\ res = Ok(WaveFormat_new(req.storebits, req.storebits, req.sample_type,
                               req.samplerate, req.channels, req.channel_mask))
    /\ calls = <<>>
    /\ io = FormatIO(res.val, <<>>, <<>>, <<>>)

NextFormat ==
    \/ to_waveformatex
    \/ from_waveformatex
    \/ is_supported_exclusive_with_quirks

SpecFormat ==
    InitFormat /\ [][NextFormat]_vars

\* ========================================================= aligned periods
\* AudioClient::calculate_aligned_period_near and calculate_period_100ns. The
\* f64 expressions of the source are computed here as exact quotients: the
\* products are integers far below 2^53, and for the sample rates used no
\* quotient lies on a rounding boundary where the two could differ.

\* 10000000: the number of 100 ns units in a second.
HnsPerSecond ==
    10000 * 1000

\* (a as f64 / b as f64).round() as i64, for a >= 0 and b > 0.
RoundDiv(a, b) ==
    (a \div b) + (IF 2 * (a % b) >= b THEN 1 ELSE 0)

\* (a as f64 / b as f64).ceil() as i64, for a >= 0 and b > 0.
CeilDiv(a, b) ==
    (a \div b) + (IF a % b > 0 THEN 1 ELSE 0)

\* calculate_period_100ns: ((10000.0 * 1000.0 / samplerate * frames) + 0.5) as i64
calculate_period_100ns(frames, samplerate) ==
    RoundDiv(HnsPerSecond * frames, samplerate)

RECURSIVE Gcd(_, _)
Gcd(a, b) ==
    IF b = 0 THEN a ELSE Gcd(b, a % b)

\* num_integer's lcm, called as frame_bytes.lcm(&bytes).
Lcm(a, b) ==
    IF a = 0 /\ b = 0 THEN 0 ELSE a * (b \div Gcd(a, b))

\* The outcomes of IAudioClient::GetDevicePeriod: the minimum period, or a failure.
EngineDevicePeriod ==
    {[hr |-> S_OK, min_period |-> p] : p \in {450, 30000}}
    \cup {[hr |-> "AUDCLNT_E_DEVICE_INVALIDATED", min_period |-> 0]}

\* desired_period_frames and min_period_frames of the source.
PeriodFrames(period, samplerate) ==
    RoundDiv(period * samplerate, HnsPerSecond)

MinPeriodFrames(min_period, samplerate) ==
    CeilDiv(min_period * samplerate, HnsPerSecond)

\* period_alignment_frames: the alignment segment, in frames.
AlignmentFrames(align_bytes, frame_bytes) ==
    (IF align_bytes = <<>> \/ align_bytes = <<0>> THEN frame_bytes
     ELSE Lcm(frame_bytes, align_bytes[1])) \div frame_bytes

\* What the calculation gave: its result and the frame count of the period.
PeriodOutcome(result, frames) ==
    [res |-> result, frames |-> frames]

\* A variant that never adds the extra segment.
AlignedPeriodNear_NoExtraSegment(desired_period, align_bytes, wave_fmt, dp) ==
    LET samplerate == wave_fmt.nSamplesPerSec
        frame_bytes == get_blockalign(wave_fmt)
        adjusted_desired_period == IF desired_period > dp.min_period THEN desired_period
                                   ELSE dp.min_period
        period_alignment_frames == AlignmentFrames(align_bytes, frame_bytes)
        nbr_segments == PeriodFrames(adjusted_desired_period, samplerate)
                        \div period_alignment_frames
    IN  IF dp.hr # S_OK THEN PeriodOutcome(Windows(dp.hr), 0)
        ELSE IF frame_bytes = 0 THEN PeriodOutcome(Panic("attempt to divide by zero"), 0)
        ELSE PeriodOutcome(
                 Ok(calculate_period_100ns(period_alignment_frames * nbr_segments, samplerate)),
                 period_alignment_frames * nbr_segments)

\* A variant that aligns to the frame size only.
AlignedPeriodNear_IgnoreAlign(desired_period, align_bytes, wave_fmt, dp) ==
    LET samplerate == wave_fmt.nSamplesPerSec
        adjusted_desired_period == IF desired_period > dp.min_period THEN desired_period
                                   ELSE dp.min_period
        frames == PeriodFrames(adjusted_desired_period, samplerate)
    IN  IF dp.hr # S_OK THEN PeriodOutcome(Windows(dp.hr), 0)
        ELSE IF get_blockalign(wave_fmt) = 0
        THEN PeriodOutcome(Panic("attempt to divide by zero"), 0)
        ELSE PeriodOutcome(Ok(calculate_period_100ns(frames, samplerate)), frames)

\* AudioClient::calculate_aligned_period_near, given the engine's answer to
\* GetDevicePeriod (dp). The integer division by frame_bytes panics for a
\* format whose block align is 0.
AlignedPeriodNear(desired_period, align_bytes, wave_fmt, dp) ==
    LET samplerate == wave_fmt.nSamplesPerSec
        frame_bytes == get_blockalign(wave_fmt)
        adjusted_desired_period == IF desired_period > dp.min_period THEN desired_period
                                   ELSE dp.min_period
        period_alignment_frames == AlignmentFrames(align_bytes, frame_bytes)
        desired_period_frames == PeriodFrames(adjusted_desired_period, samplerate)
        min_period_frames == MinPeriodFrames(dp.min_period, samplerate)
        floor_segments == desired_period_frames \div period_alignment_frames
        nbr_segments == IF floor_segments * period_alignment_frames < min_period_frames
                        THEN floor_segments + 1 ELSE floor_segments
    IN  IF dp.hr # S_OK THEN PeriodOutcome(Windows(dp.hr), 0)
        ELSE IF frame_bytes = 0 THEN PeriodOutcome(Panic("attempt to divide by zero"), 0)
        ELSE PeriodOutcome(
                 Ok(calculate_period_100ns(period_alignment_frames * nbr_segments, samplerate)),
                 period_alignment_frames * nbr_segments)

\* The desired periods callers ask for, in 100 ns units: one below every
\* device minimum, and multiples of a millisecond.
DesiredPeriods ==
    {150} \cup {10000 * k : k \in 1..MaxPeriodSteps}

\* align_bytes: Option<u32>.
AlignArgs ==
    {<<>>, <<0>>, <<1>>, <<128>>}

\* The formats given to the calculation; the last has a block align of 0.
PeriodFormats ==
    {WaveFormat_new(24, 24, "Int", 44100, 2, <<>>),
     WaveFormat_new(16, 16, "Int", 44100, 1, <<>>),
     WaveFormat_new(16, 16, "Int", 48000, 2, <<>>),
     WaveFormat_new(32, 32, "Float", 48000, 1, <<>>),
     WaveFormat_new(32, 32, "Int", 8000, 16384, <<>>)}

calculate_aligned_period_near ==
    \E desired_period \in DesiredPeriods, align_bytes \in AlignArgs,
       wave_fmt \in PeriodFormats, dp \in EngineDevicePeriod :
       LET o == AlignedPeriodNear(desired_period, align_bytes, wave_fmt, dp)
       IN  /\ op' = "calculate_aligned_period_near"
           /\ req' = [desired_period |-> desired_period, align_bytes |-> align_bytes,
                      wave_fmt |-> wave_fmt]
           /\ res' = o.res
           /\ calls' = <<"GetDevicePeriod">>
           /\ io' = [hr |-> dp.hr, min_period |-> dp.min_period, frames |-> o.frames]
           /\ UNCHANGED <<flow, index, session, clientVars, rport, cport, deque>>

NextPeriod ==
    calculate_aligned_period_near

\* The calculation needs no initialized client: it starts from any new one.
SpecPeriod ==
    Init /\ [][NextPeriod]_vars

\* ==================================================== session notifications
\* AudioSessionControl::register_session_notification, the EventRegistration
\* guard, and the IAudioSessionEvents handlers of events.rs, which the engine
\* calls on a thread of its own for as long as it holds the registration.

\* AudioSessionState codes of the Windows SDK.
AudioSessionStateInactive == 0
AudioSessionStateActive == 1
AudioSessionStateExpired == 2

\* u32::MAX, (DWORD)(-1): the model checker's largest integer stands for it.
U32_MAX == 2147483647

\* The fields of EventCallbacks.
CallbackKinds ==
    {"simple_volume", "channel_volume", "state", "disconnected",
     "iconpath", "displayname", "groupingparam"}

\* The EventCallbacks given to a registration: which callbacks are set.
CallbackSets ==
    {{}, {"state"}, {"channel_volume", "disconnected"}, CallbackKinds}

\* One invocation of a callback.
Invocation(kind, arg, idx) ==
    [cb |-> kind, arg |-> arg, idx |-> idx]

\* `if let Some(callback) = &self.callbacks.<kind> { callback(..) }`
InvokeIfSet(callbacks, kind, arg) ==
    IF kind \in callbacks THEN <<Invocation(kind, arg, 0)>> ELSE <<>>

\* The callback invocations each handler makes for an event ev, in order.
Handle_OnStateChanged(callbacks, ev) ==
    IF ev.code = AudioSessionStateActive THEN InvokeIfSet(callbacks, "state", "Active")
    ELSE IF ev.code = AudioSessionStateInactive
    THEN InvokeIfSet(callbacks, "state", "Inactive")
    ELSE IF ev.code = AudioSessionStateExpired
    THEN InvokeIfSet(callbacks, "state", "Expired")
    ELSE <<>>

\* The DisconnectReasonXxx codes 0..5 of the Windows SDK, in order.
DisconnectReasons ==
    <<"DeviceRemoval", "ServerShutdown", "FormatChanged", "SessionLogoff",
      "SessionDisconnected", "ExclusiveModeOverride">>

Handle_OnSessionDisconnected(callbacks, ev) ==
    InvokeIfSet(callbacks, "disconnected",
                IF ev.code \in 0..(Len(DisconnectReasons) - 1)
                THEN DisconnectReasons[ev.code + 1] ELSE "Unknown")

\* volslice is newchannelvolumearray[0..channelcount]; the callback gets the
\* index and volslice[index].
Handle_OnChannelVolumeChanged(callbacks, ev) ==
    IF "channel_volume" \notin callbacks THEN <<>>
    ELSE (IF ev.changedchannel = U32_MAX
          THEN [idx \in 1..ev.channelcount |->
                    Invocation("channel_volume", ev.newchannelvolumearray[idx], idx - 1)]
          ELSE <<>>)
         \o (IF ev.changedchannel < ev.channelcount
             THEN <<Invocation("channel_volume",
                               ev.newchannelvolumearray[ev.changedchannel + 1],
                               ev.changedchannel)>>
             ELSE <<>>)

Handle(callbacks, ev) ==
    CASE ev.handler = "OnStateChanged" -> Handle_OnStateChanged(callbacks, ev)
      [] ev.handler = "OnSessionDisconnected" -> Handle_OnSessionDisconnected(callbacks, ev)
      [] ev.handler = "OnChannelVolumeChanged" -> Handle_OnChannelVolumeChanged(callbacks, ev)
      [] ev.handler = "OnDisplayNameChanged" -> InvokeIfSet(callbacks, "displayname", "name")
      [] ev.handler = "OnIconPathChanged" -> InvokeIfSet(callbacks, "iconpath", "path")
      [] ev.handler = "OnSimpleVolumeChanged" -> InvokeIfSet(callbacks, "simple_volume", "volume")
      [] ev.handler = "OnGroupingParamChanged" -> InvokeIfSet(callbacks, "groupingparam", "guid")

\* The callback an event is for.
KindOf(handler) ==
    CASE handler = "OnStateChanged" -> "state"
      [] handler = "OnSessionDisconnected" -> "disconnected"
      [] handler = "OnChannelVolumeChanged" -> "channel_volume"
      [] handler = "OnDisplayNameChanged" -> "displayname"
      [] handler = "OnIconPathChanged" -> "iconpath"
      [] handler = "OnSimpleVolumeChanged" -> "simple_volume"
      [] handler = "OnGroupingParamChanged" -> "groupingparam"

\* An event of the engine: the handler it calls and the arguments that matter.
\* newchannelvolumearray holds channelcount volumes; eventcontext is the
\* *const GUID the handler is given: "valid", "null" (the party that made the
\* change passed no context), or "none" for a handler without the parameter.
Event(handler, code, channelcount, newchannelvolumearray, changedchannel, eventcontext) ==
    [handler |-> handler, code |-> code, channelcount |-> channelcount,
     newchannelvolumearray |-> newchannelvolumearray,
     changedchannel |-> changedchannel, eventcontext |-> eventcontext]

\* The f32 volumes of a channel the engine may report.
VolumeLevels ==
    {"0.25", "0.75"}

\* The pointers the engine may pass as eventcontext.
EventContexts ==
    {"valid", "null"}

\* The outcomes of RegisterAudioSessionNotification and of
\* UnregisterAudioSessionNotification.
EngineRegister ==
    {S_OK, "E_OUTOFMEMORY"}

EngineUnregister ==
    {S_OK, "E_NOTFOUND"}

\* The events the engine may deliver.
Events ==
    {Event(h, c, 0, <<>>, 0, "none") :
        h \in {"OnStateChanged", "OnSessionDisconnected"}, c \in (-1)..MaxCode}
    \cup {Event(h, 0, 0, <<>>, 0, ctx) :
            h \in {"OnDisplayNameChanged", "OnIconPathChanged",
                   "OnSimpleVolumeChanged", "OnGroupingParamChanged"},
            ctx \in EventContexts}
    \cup UNION {{Event("OnChannelVolumeChanged", 0, n, vols, ch, ctx) :
                    vols \in [1..n -> VolumeLevels],
                    ch \in (0..MaxVolChannels) \cup {U32_MAX},
                    ctx \in EventContexts} :
                n \in 1..MaxVolChannels}

\* WasapiError::RegisterNotifications(err)
RegisterNotifications(hr) ==
    [status |-> "Err", err |-> "RegisterNotifications", hresult |-> hr, val |-> 0]

\* The registration after register_session_notification, given the engine's
\* answer: the guard is made only when the engine accepted.
Registered(callbacks, hr) ==
    IF hr = S_OK THEN [guard |-> "held", registered |-> TRUE, callbacks |-> callbacks]
    ELSE NoSession

register_session_notification ==
    /\ session.guard = "none"
    /\ \E callbacks \in CallbackSets, hr \in EngineRegister :
          /\ op' = "register_session_notification"
          /\ req' = [callbacks |-> callbacks]
          /\ res' = IF hr = S_OK THEN Ok(0) ELSE RegisterNotifications(hr)
          /\ calls' = <<"RegisterAudioSessionNotification">>
          /\ io' = [hr |-> hr, invoked |-> <<>>, guard |-> session.guard]
          /\ session' = Registered(callbacks, hr)
    /\ UNCHANGED <<flow, index, clientVars, rport, cport, deque>>

\* The registration after the guard is dropped, given the engine's answer to
\* UnregisterAudioSessionNotification: the answer is discarded (`let _ =`), and
\* the engine keeps the events object when it did not unregister it.
Dropped(s, hr) ==
    [guard |-> "dropped", registered |-> hr # S_OK, callbacks |-> s.callbacks]

\* impl Drop for EventRegistration
EventRegistration_drop ==
    /\ session.guard = "held"
    /\ \E hr \in EngineUnregister :
          /\ op' = "drop"
          /\ req' = NoReq
          /\ res' = Ok(0)
          /\ calls' = <<"UnregisterAudioSessionNotification">>
          /\ io' = [hr |-> hr, invoked |-> <<>>, guard |-> session.guard]
          /\ session' = Dropped(session, hr)
    /\ UNCHANGED <<flow, index, clientVars, rport, cport, deque>>

\* The handler did not return: the process stopped on an invalid read.
Crashed ==
    [status |-> "Crash", err |-> "", hresult |-> "", val |-> 0]

\* `let context = unsafe { *eventcontext };`, executed when the callback of the
\* handler is set: the read of a null pointer is undefined; the build either
\* stops there or goes on with whatever it read.
DerefEventContext(callbacks, ev) ==
    IF ev.eventcontext = "null" /\ KindOf(ev.handler) \in callbacks
    THEN {"crash", "read"}
    ELSE {"read"}

\* The engine calls a handler of the events object it holds.
Deliver(handler) ==
    /\ session.registered
    /\ \E ev \in Events :
          /\ ev.handler = handler
          /\ \E deref \in DerefEventContext(session.callbacks, ev) :
                /\ op' = handler
                /\ req' = ev
                /\ res' = IF deref = "crash" THEN Crashed ELSE Ok(0)
                /\ calls' = <<>>
                /\ io' = [hr |-> IF deref = "crash" THEN "none" ELSE S_OK,
                          invoked |-> IF deref = "crash" THEN <<>>
                                      ELSE Handle(session.callbacks, ev),
                          guard |-> session.guard]
    /\ UNCHANGED <<flow, index, session, clientVars, rport, cport, deque>>

OnStateChanged == Deliver("OnStateChanged")

OnSessionDisconnected == Deliver("OnSessionDisconnected")

OnDisplayNameChanged == Deliver("OnDisplayNameChanged")

OnIconPathChanged == Deliver("OnIconPathChanged")

OnSimpleVolumeChanged == Deliver("OnSimpleVolumeChanged")

OnChannelVolumeChanged == Deliver("OnChannelVolumeChanged")

OnGroupingParamChanged == Deliver("OnGroupingParamChanged")

\* The outcomes of WaitForSingleObject: an infinite wait (u32::MAX) never
\* times out.
EngineWait(timeout_ms) ==
    {"WAIT_OBJECT_0", "WAIT_ABANDONED", "WAIT_FAILED"}
    \cup (IF timeout_ms = U32_MAX THEN {} ELSE {"WAIT_TIMEOUT"})

Timeouts ==
    (0..MaxTimeout) \cup {U32_MAX}

\* Handle::wait_for_event, given the outcome of the wait.
WaitForEvent(retval) ==
    IF retval # "WAIT_OBJECT_0" THEN Err("EventTimeout") ELSE Ok(0)

wait_for_event ==
    /\ \E timeout_ms \in Timeouts :
          \E retval \in EngineWait(timeout_ms) :
              /\ op' = "wait_for_event"
              /\ req' = [timeout_ms |-> timeout_ms]
              /\ res' = WaitForEvent(retval)
              /\ calls' = <<"WaitForSingleObject">>
              /\ io' = [hr |-> S_OK, invoked |-> <<>>, guard |-> session.guard,
                        retval |-> retval]
    /\ UNCHANGED <<flow, index, session, clientVars, rport, cport, deque>>

DEVICE_STATE_ACTIVE == 1
DEVICE_STATE_DISABLED == 2
DEVICE_STATE_NOTPRESENT == 4
DEVICE_STATE_UNPLUGGED == 8

\* The i32 codes (EDataFlow, ERole, AudioSessionState) and the u32 codes
\* (device state) the engine may hand over.
Codes ==
    (-1)..MaxCode

StateCodes ==
    0..MaxCode

\* WasapiError::IllegalXxx(code)
Illegal(e, code) ==
    [status |-> "Err", err |-> e, hresult |-> "", val |-> code]

\* impl TryFrom<&EDataFlow> for Direction
Direction_try_from(value) ==
    CASE value = 0 -> Ok("Render")
      [] value = 1 -> Ok("Capture")
      [] OTHER -> Illegal("IllegalDeviceDirection", value)

\* impl TryFrom<&ERole> for Role
Role_try_from(value) ==
    CASE value = 0 -> Ok("Console")
      [] value = 1 -> Ok("Multimedia")
      [] value = 2 -> Ok("Communications")
      [] OTHER -> Illegal("IllegalDeviceRole", value)

\* Device::get_state, after a successful GetState
DeviceStateOf(state) ==
    CASE state = DEVICE_STATE_ACTIVE -> Ok("Active")
      [] state = DEVICE_STATE_DISABLED -> Ok("Disabled")
      [] state = DEVICE_STATE_NOTPRESENT -> Ok("NotPresent")
      [] state = DEVICE_STATE_UNPLUGGED -> Ok("Unplugged")
      [] OTHER -> Illegal("IllegalDeviceState", state)

\* AudioSessionControl::get_state, after a successful GetState
SessionStateOf(state) ==
    CASE state = AudioSessionStateActive -> Ok("Active")
      [] state = AudioSessionStateInactive -> Ok("Inactive")
      [] state = AudioSessionStateExpired -> Ok("Expired")
      [] OTHER -> Illegal("IllegalSessionState", state)

\* The outcomes of a getter of the engine that hands over a code.
EngineCode ==
    {S_OK, "E_FAIL"}

\* The conversion each operation applies to the code it was handed.
Converted(name, code) ==
    CASE name = "from_immdevice" -> Direction_try_from(code)
      [] name = "Device_get_state" -> DeviceStateOf(code)
      [] name = "AudioSessionControl_get_state" -> SessionStateOf(code)

\* A conversion of a code the engine handed over; the getter may fail first.
Convert(name, codes, getter) ==
    /\ \E code \in codes, hr \in EngineCode :
          /\ op' = name
          /\ req' = NoReq
          /\ res' = IF hr = S_OK THEN Converted(name, code) ELSE Windows(hr)
          /\ calls' = getter
          /\ io' = [hr |-> hr, invoked |-> <<>>, guard |-> session.guard, code |-> code]
    /\ UNCHANGED <<flow, index, session, clientVars, rport, cport, deque>>

\* Device::from_immdevice: the direction of the endpoint.
from_immdevice ==
    Convert("from_immdevice", Codes, <<"GetDataFlow">>)

\* Role::try_from on a role code; no engine call is made.
try_from_ERole ==
    /\ \E code \in Codes :
          /\ op' = "try_from_ERole"
          /\ req' = [value |-> code]
          /\ res' = Role_try_from(code)
          /\ calls' = <<>>
          /\ io' = [hr |-> S_OK, invoked |-> <<>>, guard |-> session.guard, code |-> code]
    /\ UNCHANGED <<flow, index, session, clientVars, rport, cport, deque>>

Device_get_state ==
    Convert("Device_get_state", StateCodes, <<"GetState">>)

AudioSessionControl_get_state ==
    Convert("AudioSessionControl_get_state", Codes, <<"GetState">>)

\* The outcomes of IMMDeviceCollection::GetCount and ::Item.
EngineGetCount ==
    {[hr |-> S_OK, val |-> n] : n \in 0..MaxDevices}
    \cup {[hr |-> "AUDCLNT_E_DEVICE_INVALIDATED", val |-> 0]}

EngineItem ==
    {S_OK, "E_INVALIDARG"}

\* Option<WasapiRes<Device>>: None, or Some of the result of get_device_at_index.
IterNone ==
    [status |-> "None", err |-> "", hresult |-> "", val |-> 0]

\* DeviceCollectionIter::next, given the iterator's index and the engine's
\* answers: the count query is unwrapped.
IterNext(idx, count, item) ==
    IF count.hr # S_OK
    THEN [res |-> Panic(count.hr), calls |-> <<"GetCount">>, index |-> idx]
    ELSE IF idx < count.val
    THEN [res |-> IF item = S_OK THEN Ok(idx) ELSE Windows(item),
          calls |-> <<"GetCount", "Item">>, index |-> idx + 1]
    ELSE [res |-> IterNone, calls |-> <<"GetCount">>, index |-> idx]

\* impl IntoIterator for &DeviceCollection
into_iter ==
    /\ op' = "into_iter"
    /\ req' = NoReq
    /\ res' = Ok(0)
    /\ calls' = <<>>
    /\ io' = NoIO
    /\ index' = 0
    /\ UNCHANGED <<flow, session, clientVars, rport, cport, deque>>

DeviceCollectionIter_next ==
    /\ \E count \in EngineGetCount, item \in EngineItem :
          LET o == IterNext(index, count, item)
          IN  /\ op' = "next"
              /\ req' = [index |-> index]
              /\ res' = o.res
              /\ calls' = o.calls
              /\ io' = [hr |-> count.hr, invoked |-> <<>>, guard |-> session.guard,
                        count |-> count.val]
              /\ index' = o.index
    /\ UNCHANGED <<flow, session, clientVars, rport, cport, deque>>

NextSession ==
    \/ register_session_notification
    \/ into_iter
    \/ DeviceCollectionIter_next
    \/ from_immdevice
    \/ try_from_ERole
    \/ Device_get_state
    \/ AudioSessionControl_get_state
    \/ wait_for_event
    \/ OnStateChanged
    \/ OnSessionDisconnected
    \/ OnDisplayNameChanged
    \/ OnIconPathChanged
    \/ OnSimpleVolumeChanged
    \/ OnChannelVolumeChanged
    \/ OnGroupingParamChanged
    \/ EventRegistration_drop

SpecSession == Init /\ [][NextSession]_vars

\* ======================================================== recovery of alignment
\* examples/playnoise_exclusive.rs, main: the exclusive event-driven client is
\* initialized with an aligned period, and an unaligned-buffer refusal is
\* answered by asking the rejected client for the next aligned size and
\* starting again on a fresh client.

\* The formats the example may end up with (44100 Hz keeps every product of
\* the calculation within the integers of the checker).
RecoveryFormats ==
    {WaveFormat_new(24, 24, "Int", 44100, 2, <<>>),
     WaveFormat_new(16, 16, "Int", 44100, 2, <<>>),
     WaveFormat_new(32, 32, "Float", 44100, 2, <<>>)}

\* The next-highest-aligned buffer size GetBufferSize reports on the rejected
\* client, in frames, or a failure.
EngineAlignedSize ==
    {[hr |-> S_OK, val |-> 32 * k] : k \in 1..MaxSegments}
    \cup {[hr |-> "AUDCLNT_E_DEVICE_INVALIDATED", val |-> 0]}

\* The outcomes of IMMDevice::Activate.
EngineActivate ==
    {S_OK, "E_OUTOFMEMORY"}

\* let mode = StreamMode::EventsExclusive { period_hns: desired_period };
EventsExclusive(period_hns) ==
    [tag |-> "EventsExclusive", period_hns |-> period_hns]

\* The local variables of main.
RecoveryFlow(pc, desired_format, mode, buffersize, aligned_period, clients, passed, steps) ==
    [pc |-> pc, desired_format |-> desired_format, mode |-> mode,
     buffersize |-> buffersize, aligned_period |-> aligned_period,
     clients |-> clients, passed |-> passed, steps |-> steps]

\* The flow with its position and what one more step appends.
Advance(f, pc, period) ==
    [f EXCEPT !.pc = pc,
              !.passed = IF period = <<>> THEN @ ELSE Append(@, period[1]),
              !.steps = Append(@, f.pc)]

\* The stream mode the retry passes: `&mode`, the one of the first call.
RetryMode(f) ==
    f.mode

\* main, lines 41-52: get_device_period().unwrap(), then
\* calculate_aligned_period_near(3 * min_period / 2, Some(128), &desired_format).unwrap()
main_desired_period ==
    /\ flow.pc = "desired_period"
    /\ \E dp \in EngineDevicePeriod :
          LET o == AlignedPeriodNear((3 * dp.min_period) \div 2, <<128>>,
                                     flow.desired_format, dp)
          IN  /\ op' = "get_device_period"
              /\ req' = NoReq
              /\ res' = IF dp.hr # S_OK THEN Panic(dp.hr) ELSE o.res
              /\ calls' = <<"GetDevicePeriod">>
              /\ io' = [hr |-> dp.hr, min_period |-> dp.min_period, frames |-> o.frames]
              /\ flow' = IF dp.hr # S_OK THEN Advance(flow, "panicked", <<>>)
                         ELSE [Advance(flow, "initialize", <<>>)
                                 EXCEPT !.mode = EventsExclusive(o.res.val)]
    /\ UNCHANGED <<index, session, clientVars, rport, cport, deque>>

\* One call of initialize_client(&desired_format, &Direction::Render, stream_mode)
\* on the current client: the request, the result, the engine call and the
\* fields afterwards, given the engine's answer.
InitializeRender(stream_mode, out) ==
    LET share  == StreamShareMode(stream_mode)
        timing == StreamTiming(stream_mode)
        chk    == DirectionFlags(direction, "Render", share)
        flags  == chk.flags \cup AutoconvertFlags(stream_mode) \cup TimingFlags(timing)
        pd     == PeriodAndDuration(stream_mode)
    IN  /\ op' = "initialize_client"
        /\ req' = [wavefmt |-> flow.desired_format, direction |-> "Render",
                   stream_mode |-> stream_mode]
        /\ IF chk.err # ""
           THEN /\ res' = Err(chk.err)
                /\ calls' = <<>>
                /\ io' = NoIO
                /\ UNCHANGED <<direction, sharemode, timingmode, bytes_per_frame,
                               engInit, engBufferSize>>
           ELSE LET after == FieldsAfterInitialize(Self, out.hr, flow.desired_format,
                                                   "Render", share, timing)
                IN  /\ calls' = <<"Initialize">>
                    /\ io' = [mode |-> share, streamflags |-> flags,
                              buffer_duration |-> pd.buffer_duration,
                              period |-> pd.period,
                              blockalign |-> get_blockalign(flow.desired_format),
                              hr |-> out.hr]
                    /\ res' = IF out.hr = S_OK THEN Ok(0) ELSE Windows(out.hr)
                    /\ direction' = after.direction
                    /\ sharemode' = after.sharemode
                    /\ timingmode' = after.timingmode
                    /\ bytes_per_frame' = after.bytes_per_frame
                    /\ engInit' = (engInit \/ out.hr = S_OK)
                    /\ engBufferSize' = IF out.hr = S_OK THEN out.size ELSE engBufferSize

\* main, lines 54-58: the first initialize_client and the match on its result.
main_initialize ==
    /\ flow.pc = "initialize"
    /\ \E out \in EngineInitialize :
          /\ InitializeRender(flow.mode, out)
          /\ flow' = Advance(flow,
                             CASE out.hr = S_OK -> "initialized"
                               [] out.hr = "AUDCLNT_E_BUFFER_SIZE_NOT_ALIGNED" -> "get_buffer_size"
                               [] OTHER -> "panicked",
                             <<flow.mode.period_hns>>)
    /\ UNCHANGED <<index, session, origin, devdir, engRunning, rport, cport, deque>>

\* main, line 70: audio_client.get_buffer_size().unwrap() on the rejected client.
main_get_buffer_size ==
    /\ flow.pc = "get_buffer_size"
    /\ \E out \in EngineAlignedSize :
          /\ op' = "get_buffer_size"
          /\ req' = NoReq
          /\ res' = IF out.hr = S_OK THEN Ok(out.val) ELSE Panic(out.hr)
          /\ calls' = <<"GetBufferSize">>
          /\ io' = [buffer |-> out]
          /\ flow' = IF out.hr = S_OK
                     THEN [Advance(flow, "calculate_period_100ns", <<>>)
                             EXCEPT !.buffersize = out.val]
                     ELSE Advance(flow, "panicked", <<>>)
    /\ UNCHANGED <<index, session, clientVars, rport, cport, deque>>

\* main, lines 77-80: the aligned period from the frame count and the sample rate.
main_calculate_period_100ns ==
    /\ flow.pc = "calculate_period_100ns"
    /\ LET aligned_period == calculate_period_100ns(flow.buffersize,
                                                    flow.desired_format.nSamplesPerSec)
       IN  /\ op' = "calculate_period_100ns"
           /\ req' = [frames |-> flow.buffersize,
                      samplerate |-> flow.desired_format.nSamplesPerSec]
           /\ res' = Ok(aligned_period)
           /\ calls' = <<>>
           /\ io' = NoIO
           /\ flow' = [Advance(flow, "get_iaudioclient", <<>>)
                         EXCEPT !.aligned_period = aligned_period]
    /\ UNCHANGED <<index, session, clientVars, rport, cport, deque>>

\* main, line 83: audio_client = device.get_iaudioclient().unwrap(); the
\* rejected client is dropped by the assignment.
main_get_iaudioclient ==
    /\ flow.pc = "get_iaudioclient"
    /\ \E hr \in EngineActivate :
          /\ op' = "get_iaudioclient"
          /\ req' = NoReq
          /\ res' = IF hr = S_OK THEN Ok(0) ELSE Panic(hr)
          /\ calls' = <<"Activate">>
          /\ io' = NoIO
          /\ flow' = IF hr = S_OK
                     THEN [Advance(flow, "retry", <<>>) EXCEPT !.clients = @ + 1]
                     ELSE Advance(flow, "panicked", <<>>)
          /\ direction' = IF hr = S_OK THEN devdir ELSE direction
          /\ sharemode' = IF hr = S_OK THEN "None" ELSE sharemode
          /\ timingmode' = IF hr = S_OK THEN "None" ELSE timingmode
          /\ bytes_per_frame' = IF hr = S_OK THEN <<>> ELSE bytes_per_frame
          /\ engInit' = IF hr = S_OK THEN FALSE ELSE engInit
          /\ engBufferSize' = IF hr = S_OK THEN 0 ELSE engBufferSize
          /\ engRunning' = IF hr = S_OK THEN FALSE ELSE engRunning
    /\ UNCHANGED <<index, session, origin, devdir, rport, cport, deque>>

\* main, lines 85-87: initialize_client(&desired_format, &Direction::Render, &mode).unwrap()
main_retry ==
    /\ flow.pc = "retry"
    /\ \E out \in EngineInitialize :
          /\ InitializeRender(RetryMode(flow), out)
          /\ flow' = Advance(flow, IF out.hr = S_OK THEN "initialized" ELSE "panicked",
                             <<RetryMode(flow).period_hns>>)
    /\ UNCHANGED <<index, session, origin, devdir, engRunning, rport, cport, deque>>

\* main starts with a client of the default Render device and the format the
\* device accepted.
InitRecovery ==
    /\ origin = "get_iaudioclient"
    /\ devdir = "Render"
    /\ direction = devdir
    /\ sharemode = "None"
    /\ timingmode = "None"
    /\ bytes_per_frame = <<>>
    /\ engInit = FALSE
    /\ engBufferSize = 0
    /\ engRunning = FALSE
    /\ rport = NoRenderPort
    /\ cport = NoCapturePort
    /\ deque = <<>>
    /\ session = NoSession
    /\ index = 0
    /\ \E desired_format \in RecoveryFormats :
          flow = RecoveryFlow("desired_period", desired_format, EventsExclusive(0),
                              0, 0, 1, <<>>, <<>>)
    /\ op = "none"
    /\ req = NoReq
    /\ res = Ok(0)
    /\ calls = <<>>
    /\ io = NoIO

NextRecovery ==
    \/ main_desired_period
    \/ main_initialize
    \/ main_get_buffer_size
    \/ main_calculate_period_100ns
    \/ main_get_iaudioclient
    \/ main_retry

SpecRecovery == InitRecovery /\ [][NextRecovery]_vars

\* ================================================== process loopback activation
\* AudioClient::new_application_loopback_client and the completion handler
\* Handler::ActivateCompleted: the calling thread and the thread on which the
\* engine calls the handler share Arc<(Mutex<bool>, Condvar)>.

\* The outcomes of ActivateAudioInterfaceAsync, of GetActivateResult, of the
\* activation itself and of the cast of the returned object.
EngineAsync ==
    {S_OK, "E_INVALIDARG"}

EngineActivateResult ==
    [get : {S_OK, "E_ILLEGAL_METHOD_CALL"}, result : {S_OK, "E_ACCESSDENIED"},
     cast : {S_OK, "E_NOINTERFACE"}]

\* The two threads: the caller's position (pc), the handler's (hpc), the owner
\* of the mutex, the flag it protects and the condition variable's waiter.
ActivateFlow(pc, hpc, mutex, completed, waiting, process_id, include_tree) ==
    [pc |-> pc, hpc |-> hpc, mutex |-> mutex, completed |-> completed,
     waiting |-> waiting, process_id |-> process_id, include_tree |-> include_tree]

\* One step of a thread: what it did last.
ThreadStep(name, result, engine) ==
    /\ op' = name
    /\ req' = [process_id |-> flow.process_id, include_tree |-> flow.include_tree]
    /\ res' = result
    /\ calls' = engine
    /\ io' = NoIO

\* let operation = ActivateAudioInterfaceAsync(...)?;
loopback_activate ==
    /\ flow.pc = "activate"
    /\ \E hr \in EngineAsync :
          /\ ThreadStep("ActivateAudioInterfaceAsync",
                        IF hr = S_OK THEN Ok(0) ELSE Windows(hr),
                        <<"ActivateAudioInterfaceAsync">>)
          /\ flow' = [flow EXCEPT !.pc = IF hr = S_OK THEN "lock" ELSE "returned",
                                  !.hpc = IF hr = S_OK THEN "pending" ELSE "never"]
    /\ UNCHANGED <<index, session, clientVars, rport, cport, deque>>

\* let mut completed = lock.lock().unwrap();
loopback_lock ==
    /\ flow.pc = "lock"
    /\ flow.mutex = "free"
    /\ ThreadStep("lock", Ok(0), <<>>)
    /\ flow' = [flow EXCEPT !.pc = "while", !.mutex = "caller"]
    /\ UNCHANGED <<index, session, clientVars, rport, cport, deque>>

\* A variant that waits once without looking at the flag.
WaitLoop_WaitFirst(f) ==
    IF f.pc = "while"
    THEN [f EXCEPT !.pc = "waiting", !.mutex = "free", !.waiting = TRUE]
    ELSE [f EXCEPT !.pc = "unlock"]

\* while !*completed { completed = cvar.wait(completed).unwrap(); }: the
\* test of the flag under the mutex; cvar.wait releases the mutex and joins
\* the waiters in one step.
WaitLoop(f) ==
    IF f.completed
    THEN [f EXCEPT !.pc = "unlock"]
    ELSE [f EXCEPT !.pc = "waiting", !.mutex = "free", !.waiting = TRUE]

loopback_while ==
    /\ flow.pc \in {"while", "recheck"}
    /\ flow.mutex = "caller"
    /\ ThreadStep("while", Ok(0), <<>>)
    /\ flow' = WaitLoop(flow)
    /\ UNCHANGED <<index, session, clientVars, rport, cport, deque>>

\* Condvar::wait may return without a notification.
loopback_spurious_wakeup ==
    /\ flow.pc = "waiting"
    /\ flow.waiting
    /\ ThreadStep("spurious_wakeup", Ok(0), <<>>)
    /\ flow' = [flow EXCEPT !.pc = "reacquire", !.waiting = FALSE]
    /\ UNCHANGED <<index, session, clientVars, rport, cport, deque>>

\* cvar.wait takes the mutex again before it returns.
loopback_reacquire ==
    /\ flow.pc = "reacquire"
    /\ flow.mutex = "free"
    /\ ThreadStep("wait", Ok(0), <<>>)
    /\ flow' = [flow EXCEPT !.pc = "recheck", !.mutex = "caller"]
    /\ UNCHANGED <<index, session, clientVars, rport, cport, deque>>

\* drop(completed);
loopback_unlock ==
    /\ flow.pc = "unlock"
    /\ ThreadStep("drop", Ok(0), <<>>)
    /\ flow' = [flow EXCEPT !.pc = "get_result", !.mutex = "free"]
    /\ UNCHANGED <<index, session, clientVars, rport, cport, deque>>

\* operation.GetActivateResult(..)?; result.ok()?; audio_client.unwrap().cast()?
\* and the client that is returned.
ActivateOutcome(e) ==
    IF e.get # S_OK THEN Windows(e.get)
    ELSE IF e.result # S_OK THEN Windows(e.result)
    ELSE IF e.cast # S_OK THEN Windows(e.cast)
    ELSE Ok(0)

loopback_get_result ==
    /\ flow.pc = "get_result"
    /\ \E e \in EngineActivateResult :
          LET r == ActivateOutcome(e)
          IN  /\ op' = "new_application_loopback_client"
              /\ req' = [process_id |-> flow.process_id, include_tree |-> flow.include_tree]
              /\ res' = r
              /\ calls' = <<"GetActivateResult">>
              /\ io' = [completed |-> flow.completed, hpc |-> flow.hpc]
              /\ flow' = [flow EXCEPT !.pc = "returned"]
              /\ direction' = IF r.status = "Ok" THEN "Render" ELSE direction
              /\ sharemode' = IF r.status = "Ok" THEN "Shared" ELSE sharemode
              /\ timingmode' = IF r.status = "Ok" THEN "None" ELSE timingmode
              /\ bytes_per_frame' = IF r.status = "Ok" THEN <<>> ELSE bytes_per_frame
    /\ UNCHANGED <<index, session, origin, devdir, engInit, engBufferSize, engRunning,
                   rport, cport, deque>>

\* The engine calls ActivateCompleted on a thread of its own, at any time
\* after the activation was started.
ActivateCompleted ==
    /\ flow.hpc = "pending"
    /\ ThreadStep("ActivateCompleted", Ok(0), <<>>)
    /\ flow' = [flow EXCEPT !.hpc = "lock"]
    /\ UNCHANGED <<index, session, clientVars, rport, cport, deque>>

\* let mut completed = lock.lock().unwrap();
ActivateCompleted_lock ==
    /\ flow.hpc = "lock"
    /\ flow.mutex = "free"
    /\ ThreadStep("ActivateCompleted_lock", Ok(0), <<>>)
    /\ flow' = [flow EXCEPT !.hpc = "set", !.mutex = "handler"]
    /\ UNCHANGED <<index, session, clientVars, rport, cport, deque>>

\* *completed = true;
ActivateCompleted_set ==
    /\ flow.hpc = "set"
    /\ ThreadStep("ActivateCompleted_set", Ok(0), <<>>)
    /\ flow' = [flow EXCEPT !.hpc = "drop", !.completed = TRUE]
    /\ UNCHANGED <<index, session, clientVars, rport, cport, deque>>

\* drop(completed);
ActivateCompleted_drop ==
    /\ flow.hpc = "drop"
    /\ ThreadStep("ActivateCompleted_drop", Ok(0), <<>>)
    /\ flow' = [flow EXCEPT !.hpc = "notify_one", !.mutex = "free"]
    /\ UNCHANGED <<index, session, clientVars, rport, cport, deque>>

\* cvar.notify_one(); Ok(()): a waiter, if there is one, is woken.
ActivateCompleted_notify_one ==
    /\ flow.hpc = "notify_one"
    /\ ThreadStep("ActivateCompleted_notify_one", Ok(0), <<>>)
    /\ flow' = [flow EXCEPT !.hpc = "returned",
                            !.waiting = FALSE,
                            !.pc = IF flow.waiting THEN "reacquire" ELSE @]
    /\ UNCHANGED <<index, session, clientVars, rport, cport, deque>>

InitActivate ==
    /\ origin = "new_application_loopback_client"
    /\ devdir = "Render"
    /\ direction = devdir
    /\ sharemode = "None"
    /\ timingmode = "None"
    /\ bytes_per_frame = <<>>
    /\ engInit = FALSE
    /\ engBufferSize = 0
    /\ engRunning = FALSE
    /\ rport = NoRenderPort
    /\ cport = NoCapturePort
    /\ deque = <<>>
    /\ session = NoSession
    /\ index = 0
    /\ \E process_id \in 1..MaxProcess, include_tree \in BOOLEAN :
          flow = ActivateFlow("activate", "never", "free", FALSE, FALSE,
                              process_id, include_tree)
    /\ op = "none"
    /\ req = NoReq
    /\ res = Ok(0)
    /\ calls = <<>>
    /\ io = NoIO

CallerNext ==
    \/ loopback_activate
    \/ loopback_lock
    \/ loopback_while
    \/ loopback_reacquire
    \/ loopback_unlock
    \/ loopback_get_result

HandlerNext ==
    \/ ActivateCompleted_lock
    \/ ActivateCompleted_set
    \/ ActivateCompleted_drop
    \/ ActivateCompleted_notify_one

NextActivate ==
    \/ CallerNext
    \/ HandlerNext
    \/ ActivateCompleted
    \/ loopback_spurious_wakeup

\* Both threads keep running while they can take a step; nothing obliges the
\* engine to complete the activation, nor a waiter to wake by itself.
SpecActivate ==
    InitActivate /\ [][NextActivate]_vars /\ WF_vars(CallerNext) /\ WF_vars(HandlerNext)

\* ================================================================ channel masks
\* WaveFormat::new with and without a channel mask, and make_simple_channelmask,
\* over channel counts on both sides of the 18 defined speaker positions.

\* channel_mask: Option<u32>
MaskArgs ==
    {<<>>, <<0>>, <<SPEAKER_FRONT_LEFT>>, <<KSAUDIO_SPEAKER_STEREO>>,
     <<KSAUDIO_SPEAKER_5POINT1>>}

MaskNewArgs ==
    [storebits : {16, 32}, sample_type : SampleType, samplerate : {8000},
     channels : 0..MaxMaskChannels, channel_mask : MaskArgs]

\* WaveFormat::new(storebits, storebits, sample_type, samplerate, channels, channel_mask)
new ==
    /\ op = "none"
    /\ op' = "new"
    /\ res' = Ok(WaveFormat_new(req.storebits, req.storebits, req.sample_type,
                                req.samplerate, req.channels, req.channel_mask))
    /\ calls' = <<>>
    /\ io' = NoIO
    /\ UNCHANGED <<req, flow, index, session, clientVars, rport, cport, deque>>

\* make_simple_channelmask(channels), for the same channel count
simple_channelmask ==
    /\ op = "none"
    /\ op' = "make_simple_channelmask"
    /\ res' = Ok(make_simple_channelmask(req.channels))
    /\ calls' = <<>>
    /\ io' = NoIO
    /\ UNCHANGED <<req, flow, index, session, clientVars, rport, cport, deque>>

InitMask ==
    /\ origin = "get_iaudioclient"
    /\ devdir = "Render"
    /\ direction = devdir
    /\ sharemode = "None"
    /\ timingmode = "None"
    /\ bytes_per_frame = <<>>
    /\ engInit = FALSE
    /\ engBufferSize = 0
    /\ engRunning = FALSE
    /\ rport = NoRenderPort
    /\ cport = NoCapturePort
    /\ deque = <<>>
    /\ session = NoSession
    /\ index = 0
    /\ flow = NoFlow
    /\ op = "none"
    /\ req \in MaskNewArgs
    /\ res = Ok(0)
    /\ calls = <<>>
    /\ io = NoIO

NextMask ==
    \/ new
    \/ simple_channelmask

SpecMask == InitMask /\ [][NextMask]_vars

\* ================================================================== render loop
\* examples/playsine_poll.rs, main: the loop that asks for the free space and
\* writes that many frames, while the engine plays what is queued.

\* The program's locals and the engine's ring: the frames queued, the count the
\* last query returned.
RenderFlow(pc, queued, buffer_frame_count) ==
    [pc |-> pc, queued |-> queued, buffer_frame_count |-> buffer_frame_count]

\* IAudioRenderClient::GetBuffer refuses a request larger than the free part of
\* the ring.
RingGetBuffer(nbr_frames, size, queued) ==
    IF nbr_frames > size - queued THEN "AUDCLNT_E_BUFFER_TOO_LARGE" ELSE S_OK

\* let buffer_frame_count = audio_client.get_available_space_in_frames().unwrap();
loop_get_available_space_in_frames ==
    /\ flow.pc = "query"
    /\ \E pad \in EngineQuery({flow.queued}), buf \in EngineQuery({engBufferSize}) :
          LET r == AvailableSpace(sharemode, timingmode, pad, buf)
          IN  /\ op' = "get_available_space_in_frames"
              /\ req' = NoReq
              /\ calls' = r.calls
              /\ io' = [padding |-> pad, buffer |-> buf]
              /\ res' = IF r.res.status = "Ok" THEN r.res ELSE Panic(r.res.hresult)
              /\ flow' = IF r.res.status = "Ok"
                         THEN [flow EXCEPT !.pc = "write", !.buffer_frame_count = r.res.val]
                         ELSE [flow EXCEPT !.pc = "panicked"]
    /\ UNCHANGED <<index, session, clientVars, rport, cport, deque>>

\* render_client.write_to_device(buffer_frame_count as usize, &data, None).unwrap();
\* data holds buffer_frame_count * blockalign bytes.
loop_write_to_device ==
    /\ flow.pc = "write"
    /\ \E k \in Byte, rb \in EngineReleaseBuffer :
          LET nbr_frames == flow.buffer_frame_count
              data == Pattern(nbr_frames * rport.bytes_per_frame, k)
              gb == RingGetBuffer(nbr_frames, engBufferSize, flow.queued)
              o == WriteToDevice(rport.bytes_per_frame, nbr_frames, data, <<>>, gb, rb)
              accepted == o.res.status = "Ok" /\ o.released # <<>>
          IN  /\ op' = "write_to_device"
              /\ req' = [nbr_frames |-> nbr_frames, data |-> data, flags |-> {}]
              /\ res' = IF o.res.status = "Ok" THEN o.res ELSE Panic(o.res.hresult)
              /\ calls' = o.calls
              /\ io' = [asked |-> nbr_frames, free |-> engBufferSize - flow.queued,
                        getbuffer |-> gb, written |-> o.written]
              /\ flow' = [flow EXCEPT
                            !.pc = IF o.res.status = "Ok" THEN "query" ELSE "panicked",
                            !.queued = IF accepted THEN @ + nbr_frames ELSE @]
    /\ UNCHANGED <<index, session, clientVars, rport, cport, deque>>

\* The engine plays: frames leave the ring at any time while the stream runs.
engine_consume ==
    /\ engRunning
    /\ flow.pc \in {"query", "write"}
    /\ flow.queued > 0
    /\ \E played \in 1..flow.queued :
          /\ op' = "engine_consume"
          /\ req' = NoReq
          /\ res' = Ok(played)
          /\ calls' = <<>>
          /\ io' = NoIO
          /\ flow' = [flow EXCEPT !.queued = @ - played]
    /\ UNCHANGED <<index, session, clientVars, rport, cport, deque>>

\* The loop starts on a started stream of a Render client initialized in one of
\* the four stream modes, with its render port and an empty ring.
InitRender ==
    /\ origin = "get_iaudioclient"
    /\ devdir = "Render"
    /\ direction = devdir
    /\ sharemode \in ShareMode
    /\ timingmode \in TimingMode
    /\ \E bpf \in 1..MaxBpf :
          /\ bytes_per_frame = <<bpf>>
          /\ rport = [exists |-> TRUE, bytes_per_frame |-> bpf]
    /\ engInit = TRUE
    /\ engBufferSize \in 1..MaxRing
    /\ engRunning = TRUE
    /\ cport = NoCapturePort
    /\ deque = <<>>
    /\ session = NoSession
    /\ index = 0
    /\ flow = RenderFlow("query", 0, 0)
    /\ op = "start_stream"
    /\ req = NoReq
    /\ res = Ok(0)
    /\ calls = <<"Start">>
    /\ io = NoIO

NextRender ==
    \/ loop_get_available_space_in_frames
    \/ loop_write_to_device
    \/ engine_consume

SpecRender == InitRender /\ [][NextRender]_vars

\* ================================================================== event loop
\* examples/playsine_events.rs, main, and examples/record.rs, capture_loop: the
\* loop that writes (reads) one buffer and then waits for the engine's event,
\* while another thread may stop the stream.  Time is counted in units of which
\* the wait's timeout is a whole number.

\* The loop's position, the timeout it waits with, the event object (auto
\* reset, CreateEventA(None, false, false, ..)), the time the current wait has
\* lasted, and what happened since another thread stopped the stream: the time
\* passed (counted up to one unit past the timeout), whether the loop was
\* blocked in a wait with no signal pending at the stop, the waits that have
\* succeeded since, and the buffer operations made after a failed wait.
EventFlow(pc, timeout_ms, signalled, waited, stopped, since_stop, blocked_at_stop, ok_after_stop, failed_wait, io_after_fail) ==
    [pc |-> pc, timeout_ms |-> timeout_ms, signalled |-> signalled, waited |-> waited,
     stopped |-> stopped, since_stop |-> since_stop, blocked_at_stop |-> blocked_at_stop,
     ok_after_stop |-> ok_after_stop, failed_wait |-> failed_wait,
     io_after_fail |-> io_after_fail]

\* The loop has ended: by break, by unwrap's panic (playsine_events.rs) or by
\* the ? operator (record.rs).
Ended ==
    {"exited", "panicked", "returned_err"}

\* Where a failing call of the loop leads: unwrap in playsine_events.rs, ? in
\* record.rs.
OnFailure(dir) ==
    IF dir = "Render" THEN "panicked" ELSE "returned_err"

\* WaitForSingleObject on the loop's event object: it returns at once when the
\* event is signalled, and with WAIT_TIMEOUT when the timeout has passed; until
\* then the thread stays blocked.
EventWait(signalled, waited, timeout_ms) ==
    IF signalled THEN {"WAIT_OBJECT_0"}
    ELSE IF waited >= timeout_ms THEN {"WAIT_TIMEOUT"}
    ELSE {}

\* A variant that goes on with the loop whatever the wait returned.
AfterWait_Continue(r) ==
    "body"

\* if h_event.wait_for_event(..).is_err() { ..stop_stream..; break; }
AfterWait(r) ==
    IF r.status = "Err" THEN "stop" ELSE "body"

\* One pass through the loop body: write_to_device of the free space in
\* playsine_events.rs, read_from_device_to_deque in record.rs.
events_body ==
    /\ flow.pc = "body"
    /\ \E hr \in {S_OK, "AUDCLNT_E_DEVICE_INVALIDATED"} :
          /\ op' = IF direction = "Render" THEN "write_to_device"
                   ELSE "read_from_device_to_deque"
          /\ req' = NoReq
          /\ calls' = <<"GetBuffer", "ReleaseBuffer">>
          /\ io' = [stopped |-> flow.stopped, failed_wait |-> flow.failed_wait]
          /\ res' = IF hr = S_OK THEN Ok(0)
                    ELSE IF direction = "Render" THEN Panic(hr) ELSE Windows(hr)
          /\ flow' = [flow EXCEPT
                        !.pc = IF hr = S_OK THEN "waiting" ELSE OnFailure(direction),
                        !.waited = 0,
                        !.io_after_fail = IF flow.failed_wait THEN 1 ELSE @]
    /\ UNCHANGED <<index, session, clientVars, rport, cport, deque>>

\* h_event.wait_for_event(timeout) returns.
events_wait_for_event ==
    /\ flow.pc = "waiting"
    /\ \E retval \in EventWait(flow.signalled, flow.waited, flow.timeout_ms) :
          LET r == WaitForEvent(retval)
          IN  /\ op' = "wait_for_event"
              /\ req' = [timeout_ms |-> flow.timeout_ms]
              /\ calls' = <<"WaitForSingleObject">>
              /\ io' = [stopped |-> flow.stopped, retval |-> retval,
                        waited |-> flow.waited, blocked_at_stop |-> flow.blocked_at_stop]
              /\ res' = r
              /\ flow' = [flow EXCEPT
                            !.pc = AfterWait(r),
                            !.signalled = FALSE,
                            !.failed_wait = @ \/ r.status = "Err",
                            !.ok_after_stop = IF flow.stopped /\ r.status = "Ok" /\ @ < 2
                                              THEN @ + 1 ELSE @]
    /\ UNCHANGED <<index, session, clientVars, rport, cport, deque>>

\* audio_client.stop_stream() and break, after the failed wait.
events_stop_stream ==
    /\ flow.pc = "stop"
    /\ \E hr \in EngineControl("Stop") :
          /\ op' = "stop_stream"
          /\ req' = NoReq
          /\ calls' = <<"Stop">>
          /\ io' = [stopped |-> flow.stopped, failed_wait |-> flow.failed_wait]
          /\ res' = IF hr = S_OK THEN Ok(0)
                    ELSE IF direction = "Render" THEN Panic(hr) ELSE Windows(hr)
          /\ engRunning' = IF hr = S_OK THEN FALSE ELSE engRunning
          /\ flow' = [flow EXCEPT !.pc = IF hr = S_OK THEN "exited"
                                         ELSE OnFailure(direction)]
    /\ UNCHANGED <<index, session, origin, devdir, direction, sharemode, timingmode,
                   bytes_per_frame, engInit, engBufferSize, rport, cport, deque>>

\* The engine signals the event when a buffer is ready, while the stream runs.
engine_signal ==
    /\ engRunning
    /\ flow.pc \in {"body", "waiting"}
    /\ ~flow.signalled
    /\ op' = "engine_signal"
    /\ req' = NoReq
    /\ calls' = <<>>
    /\ io' = NoIO
    /\ res' = Ok(0)
    /\ flow' = [flow EXCEPT !.signalled = TRUE]
    /\ UNCHANGED <<index, session, clientVars, rport, cport, deque>>

\* Another thread calls stop_stream while the loop runs.
other_stop_stream ==
    /\ flow.pc \in {"body", "waiting"}
    /\ ~flow.stopped
    /\ \E hr \in EngineControl("Stop") :
          /\ op' = "other_stop_stream"
          /\ req' = NoReq
          /\ calls' = <<"Stop">>
          /\ io' = NoIO
          /\ res' = IF hr = S_OK THEN Ok(0) ELSE Windows(hr)
          /\ engRunning' = IF hr = S_OK THEN FALSE ELSE engRunning
          /\ flow' = IF hr = S_OK
                     THEN [flow EXCEPT
                             !.stopped = TRUE,
                             !.since_stop = 0,
                             !.blocked_at_stop = flow.pc = "waiting" /\ ~flow.signalled]
                     ELSE flow
    /\ UNCHANGED <<index, session, origin, devdir, direction, sharemode, timingmode,
                   bytes_per_frame, engInit, engBufferSize, rport, cport, deque>>

\* One unit of time passes: in the loop body, or in a wait that has neither
\* been signalled nor reached its timeout.
tick ==
    /\ \/ flow.pc = "body"
       \/ /\ flow.pc = "waiting"
          /\ EventWait(flow.signalled, flow.waited, flow.timeout_ms) = {}
    /\ op' = "tick"
    /\ req' = NoReq
    /\ calls' = <<>>
    /\ io' = NoIO
    /\ res' = Ok(0)
    /\ flow' = [flow EXCEPT
                  !.waited = IF flow.pc = "waiting" THEN @ + 1 ELSE @,
                  !.since_stop = IF flow.stopped /\ @ <= flow.timeout_ms THEN @ + 1 ELSE @]
    /\ UNCHANGED <<index, session, clientVars, rport, cport, deque>>

\* The loop starts on a started stream of a client initialized in EventsShared
\* mode, Render in playsine_events.rs and Capture in record.rs.
InitEvents ==
    /\ origin = "get_iaudioclient"
    /\ devdir \in Direction
    /\ direction = devdir
    /\ sharemode = "Shared"
    /\ timingmode = "Events"
    /\ \E bpf \in 1..MaxBpf :
          /\ bytes_per_frame = <<bpf>>
          /\ rport = IF direction = "Render"
                     THEN [exists |-> TRUE, bytes_per_frame |-> bpf] ELSE NoRenderPort
          /\ cport = IF direction = "Capture"
                     THEN [exists |-> TRUE, sharemode |-> sharemode, bytes_per_frame |-> bpf]
                     ELSE NoCapturePort
    /\ engInit = TRUE
    /\ engBufferSize = MaxBuffer
    /\ engRunning = TRUE
    /\ deque = <<>>
    /\ session = NoSession
    /\ index = 0
    /\ \E timeout_ms \in 1..MaxTimeout :
          flow = EventFlow("body", timeout_ms, FALSE, 0, FALSE, 0, FALSE, 0, FALSE, 0)
    /\ op = "start_stream"
    /\ req = NoReq
    /\ res = Ok(0)
    /\ calls = <<"Start">>
    /\ io = NoIO

LoopNext ==
    \/ events_body
    \/ events_wait_for_event
    \/ events_stop_stream

NextEvents ==
    \/ LoopNext
    \/ engine_signal
    \/ other_stop_stream
    \/ tick

\* The streaming thread keeps running and time keeps passing.
SpecEvents ==
    InitEvents /\ [][NextEvents]_vars /\ WF_vars(LoopNext) /\ WF_vars(tick)

\* ================================================================ capture queue
\* AudioCaptureClient::read_from_device against an engine that keeps the
\* captured packets in a queue: GetBuffer hands out the oldest packet, and
\* ReleaseBuffer with the packet's frame count takes it off the queue, while
\* ReleaseBuffer(0) leaves it to be handed out again.

\* The engine's queue of captured packets, the device position of the newest
\* one, the positions of the packets that caused DataLengthTooShort, and the
\* length of the slice of the last call that failed so.
CaptureFlow(packets, position, lost, short_len) ==
    [pc |-> "capture", packets |-> packets, position |-> position, lost |-> lost,
     short_len |-> short_len]

\* BufferInfo of a captured packet: index is the device position of its first
\* frame, which no two packets share.
PacketInfo(position) ==
    [flags |-> {}, index |-> position, timestamp |-> position]

\* IAudioCaptureClient::GetBuffer: the oldest packet, or AUDCLNT_S_BUFFER_EMPTY
\* with no frame; or a failure.
QueueGetBuffer(packets) ==
    {IF packets = <<>> THEN NoPacket ELSE Head(packets),
     [hr |-> "AUDCLNT_E_DEVICE_INVALIDATED", frames |-> 0, bytes |-> <<>>,
      info |-> BufferInfo_none]}

\* IAudioCaptureClient::ReleaseBuffer(n) answered with rb: the packet leaves the
\* queue when its whole frame count was released.
QueueReleaseBuffer(packets, pk, released, rb) ==
    IF /\ released # <<>>
       /\ rb = S_OK
       /\ pk.frames > 0
       /\ released[1] = pk.frames
    THEN Tail(packets)
    ELSE packets

\* The engine captures one more packet.
engine_capture ==
    /\ flow.position < MaxPackets
    /\ Len(flow.packets) < 2
    /\ \E f \in 1..MaxFrames, k \in Byte :
          LET pk == [hr |-> S_OK, frames |-> f,
                     bytes |-> Pattern(f * cport.bytes_per_frame, k),
                     info |-> PacketInfo(flow.position + 1)]
          IN  /\ op' = "engine_capture"
              /\ req' = NoReq
              /\ res' = Ok(f)
              /\ calls' = <<>>
              /\ io' = NoIO
              /\ flow' = [flow EXCEPT !.packets = Append(@, pk),
                                      !.position = @ + 1]
    /\ UNCHANGED <<index, session, clientVars, rport, cport, deque>>

\* capture_client.read_from_device(&mut data)
queue_read_from_device ==
    /\ cport.exists
    /\ \E data \in Slices(MaxLen), pk \in QueueGetBuffer(flow.packets),
          rb \in EngineReleaseBuffer :
          LET o == ReadFromDevice(cport.bytes_per_frame, data, pk, rb)
              short == o.res.status = "Err" /\ o.res.err = "DataLengthTooShort"
          IN  /\ op' = "read_from_device"
              /\ req' = [nbr_frames |-> 0, data |-> data, flags |-> {}]
              /\ res' = o.res
              /\ calls' = o.calls
              /\ io' = [packet |-> pk, released |-> o.released, out |-> o.out,
                        before |-> flow.packets, lost |-> flow.lost,
                        short_len |-> flow.short_len]
              /\ flow' = [flow EXCEPT
                            !.packets = QueueReleaseBuffer(@, pk, o.released, rb),
                            !.lost = IF short THEN @ \cup {pk.info.index} ELSE @,
                            !.short_len = IF short THEN Len(data) ELSE @]
    /\ UNCHANGED <<index, session, clientVars, rport, cport, deque>>

\* A started capture stream with its capture port; nothing captured yet.
InitCapture ==
    /\ origin = "get_iaudioclient"
    /\ devdir = "Capture"
    /\ direction = devdir
    /\ sharemode \in ShareMode
    /\ timingmode \in TimingMode
    /\ \E bpf \in 1..MaxBpf :
          /\ bytes_per_frame = <<bpf>>
          /\ cport = [exists |-> TRUE, sharemode |-> sharemode, bytes_per_frame |-> bpf]
    /\ rport = NoRenderPort
    /\ engInit = TRUE
    /\ engBufferSize = MaxBuffer
    /\ engRunning = TRUE
    /\ deque = <<>>
    /\ session = NoSession
    /\ index = 0
    /\ flow = CaptureFlow(<<>>, 0, {}, 0)
    /\ op = "start_stream"
    /\ req = NoReq
    /\ res = Ok(0)
    /\ calls = <<"Start">>
    /\ io = NoIO

NextCapture ==
    \/ engine_capture
    \/ queue_read_from_device

SpecCapture == InitCapture /\ [][NextCapture]_vars

\* ----------------------------------------------------------- C11 .. C20

\* C11: get_next_packet_size on a capture port whose share mode is Exclusive
\* returns Ok(None) without a call to the engine; on a port whose share mode
\* is Shared it calls GetNextPacketSize once and returns Ok(Some(n)) with the
\* engine's n (an engine failure is passed on).
C11_NextPacketSize ==
    op = "get_next_packet_size" =>
        /\ cport.sharemode = "Exclusive" => res = Ok(<<>>) /\ calls = <<>>
        /\ cport.sharemode = "Shared" =>
               /\ calls = <<"GetNextPacketSize">>
               /\ io.next.hr = S_OK => res = Ok(<<io.next.val>>)
               /\ io.next.hr # S_OK => res = Windows(io.next.hr)

C11_Witness ==
    /\ op = "get_next_packet_size"
    /\ cport.sharemode = "Exclusive"
    /\ res = Ok(<<>>)
    /\ calls = <<>>

\* The formats is_supported_exclusive_with_quirks may ask about for wave_fmt,
\* in the order the claim gives: the format, its WAVEFORMATEX form when it
\* has at most 2 channels, then one variant per mask of make_channelmasks.
C12_Ladder(wave_fmt) ==
    LET masks == make_channelmasks(wave_fmt.nChannels)
    IN  <<wave_fmt>>
        \o (IF wave_fmt.nChannels <= 2 THEN <<ToWaveformatex(wave_fmt).val>> ELSE <<>>)
        \o [i \in 1..Len(masks) |-> [wave_fmt EXCEPT !.dwChannelMask = masks[i]]]

Constructed ==
    WaveFormat_new(req.storebits, req.storebits, req.sample_type,
                   req.samplerate, req.channels, req.channel_mask)

\* SampleType of a descriptor: from the sub-format of an extensible one, from
\* the tag of a WAVEFORMATEX.
SampleTypeOf(wavefmt) ==
    IF wavefmt.SubFormat = "KSDATAFORMAT_SUBTYPE_IEEE_FLOAT"
       \/ wavefmt.wFormatTag = "WAVE_FORMAT_IEEE_FLOAT"
    THEN "Float" ELSE "Int"

\* C13 as stated: every WaveFormat produced by WaveFormat::new,
\* to_waveformatex, from_waveformatex or the mask rewriting of
\* is_supported_exclusive_with_quirks has get_blockalign() equal to
\* get_nchannels() * get_bitspersample() / 8 and get_avgbytespersec() equal to
\* get_samplespersec() * get_blockalign().
C13_DerivedFields ==
    res.status = "Ok" =>
        /\ res.val.nBlockAlign = (res.val.nChannels * res.val.wBitsPerSample) \div 8
        /\ res.val.nAvgBytesPerSec = res.val.nSamplesPerSec * res.val.nBlockAlign

\* C14 as stated: for storebits in {8, 16, 24, 32}, to_waveformatex of the
\* format WaveFormat::new built succeeds, and from_waveformatex of its Format
\* part succeeds with the sample rate, channel count, sample type and bits per
\* sample of the original.
C14_RoundTrip ==
    /\ (op = "to_waveformatex" /\ io.path = <<"to_waveformatex">>
        /\ req.storebits \in {8, 16, 24, 32}) =>
           res.status = "Ok"
    /\ (op = "from_waveformatex" /\ io.path = <<"to_waveformatex", "from_waveformatex">>
        /\ req.storebits \in {8, 16, 24, 32}) =>
           /\ res.status = "Ok"
           /\ res.val.nSamplesPerSec = Constructed.nSamplesPerSec
           /\ res.val.nChannels = Constructed.nChannels
           /\ SampleTypeOf(res.val) = SampleTypeOf(Constructed)
           /\ res.val.wBitsPerSample = Constructed.wBitsPerSample

\* The alignment segment of the request in req, in frames.
Segment ==
    AlignmentFrames(req.align_bytes, get_blockalign(req.wave_fmt))

\* A period was calculated for the request in req.
PeriodCalculated ==
    op = "calculate_aligned_period_near" /\ res.status = "Ok"

C16_Scenario ==
    (/\ op = "calculate_aligned_period_near"
     /\ req.desired_period = 150
     /\ req.align_bytes = <<128>>
     /\ req.wave_fmt = WaveFormat_new(24, 24, "Int", 44100, 2, <<>>)
     /\ io.hr = S_OK
     /\ io.min_period = 450) =>
        /\ get_blockalign(req.wave_fmt) = 6
        /\ Lcm(6, 128) = 384
        /\ Segment = 64
        /\ io.frames = 1 * 64
        /\ res = Ok(14512)
        /\ res.val >= 450
        /\ res.val = calculate_period_100ns(64, 44100)

C16_Witness ==
    /\ op = "calculate_aligned_period_near"
    /\ req.desired_period = 150
    /\ req.align_bytes = <<128>>
    /\ get_blockalign(req.wave_fmt) = 6
    /\ req.wave_fmt.nSamplesPerSec = 44100
    /\ io.min_period = 450
    /\ res = Ok(14512)


\* The handlers of the events object.
Handlers ==
    {"OnStateChanged", "OnSessionDisconnected", "OnDisplayNameChanged", "OnIconPathChanged",
     "OnSimpleVolumeChanged", "OnChannelVolumeChanged", "OnGroupingParamChanged"}

\* C17: after a successful registration each delivered session event invokes
\* the matching set callback exactly once, and once the guard has been dropped
\* no callback of the registration is invoked again, also when the engine's
\* unregister call reported an error.
C17_ExactlyOnceUntilDropped ==
    op \in Handlers =>
        /\ io.guard = "held" /\ KindOf(op) \in session.callbacks =>
              /\ Len(io.invoked) = 1
              /\ io.invoked[1].cb = KindOf(op)
        /\ io.guard = "dropped" => io.invoked = <<>>
\* C18: wait_for_event returns Ok exactly when the object was signalled,
\* EventTimeout exactly when the timeout elapsed, and an error other than
\* EventTimeout for every other outcome of the wait.
C18_TimeoutDistinct ==
    op = "wait_for_event" =>
        /\ res.status = "Ok" <=> io.retval = "WAIT_OBJECT_0"
        /\ (res.status = "Err" /\ res.err = "EventTimeout") <=> io.retval = "WAIT_TIMEOUT"
        /\ io.retval \notin {"WAIT_OBJECT_0", "WAIT_TIMEOUT"} =>
              res.status = "Err" /\ res.err # "EventTimeout"

\* The known codes of each place where the engine hands over a code.
KnownCodes(name) ==
    CASE name \in {"from_immdevice"} -> {0, 1}
      [] name = "try_from_ERole" -> {0, 1, 2}
      [] name = "Device_get_state" ->
            {DEVICE_STATE_ACTIVE, DEVICE_STATE_DISABLED, DEVICE_STATE_NOTPRESENT,
             DEVICE_STATE_UNPLUGGED}
      [] name \in {"AudioSessionControl_get_state", "OnStateChanged"} ->
            {AudioSessionStateActive, AudioSessionStateInactive, AudioSessionStateExpired}

IllegalErrors ==
    {"IllegalDeviceState", "IllegalDeviceRole", "IllegalDeviceDirection", "IllegalSessionState"}

\* C19: every device-state, role, direction or session-state code outside the
\* known set that the engine hands over produces an illegal-value error; on no
\* path, the OnStateChanged notification included, is it silently dropped.
C19_IllegalCodeIsError ==
    /\ op \in {"from_immdevice", "try_from_ERole", "Device_get_state",
                "AudioSessionControl_get_state"}
          /\ io.hr = S_OK /\ io.code \notin KnownCodes(op)
          => res.status = "Err" /\ res.err \in IllegalErrors /\ res.val = io.code
    /\ op = "OnStateChanged" /\ req.code \notin KnownCodes(op)
          => res.status = "Err" /\ res.err = "IllegalSessionState"


\* C20: no operation aborts the process on an engine failure or an unusual
\* input; each returns an error value instead (the quirks check on a rejected
\* format without a WAVEFORMATEX form, read_from_device_to_deque on a failing
\* ReleaseBuffer, read_from_device with bytes_per_frame 0 and the iteration of
\* a DeviceCollection whose count query fails included).
C20_NoAbort ==
    res.status # "Panic"
\* ----------------------------------------------------------- C21 .. C30
\* initialize_client has succeeded on the client.
Initialized ==
    timingmode # "None"

\* C21: once initialize_client has succeeded, sharemode, timingmode and
\* bytes_per_frame equal the share mode and timing mode of the requested
\* StreamMode and the block align of the requested format, and no later
\* operation on the client changes them.
C21_FieldsSetOnce ==
    [][/\ (op' = "initialize_client" /\ res'.status = "Ok")
            => /\ sharemode' = StreamShareMode(req'.stream_mode)
               /\ timingmode' = StreamTiming(req'.stream_mode)
               /\ bytes_per_frame' = <<get_blockalign(req'.wavefmt)>>
       /\ Initialized
            => /\ sharemode' = sharemode
               /\ timingmode' = timingmode
               /\ bytes_per_frame' = bytes_per_frame]_vars

C21_Witness ==
    /\ Initialized
    /\ op = "initialize_client"
    /\ res = Windows("AUDCLNT_E_ALREADY_INITIALIZED")
    /\ req.stream_mode.tag = "EventsExclusive"
    /\ sharemode = "Shared"
    /\ timingmode = "Polling"

\* The steps of the recovery, in the order the claim gives them.
RecoverySteps ==
    <<"desired_period", "initialize", "get_buffer_size", "calculate_period_100ns",
      "get_iaudioclient", "retry">>

\* The retry of initialize_client has been made.
Retried ==
    Len(flow.steps) = Len(RecoverySteps)

\* C22: after the unaligned-buffer refusal the aligned size is read from the
\* rejected client, the period is recomputed from it and the sample rate, a
\* fresh client replaces the rejected one, and initialize_client is called
\* once more on the fresh client with the recomputed period, not with the
\* period first asked for.
C22_RetryWithCorrectedPeriod ==
    Retried =>
        /\ flow.steps = RecoverySteps
        /\ flow.clients = 2
        /\ flow.aligned_period
             = calculate_period_100ns(flow.buffersize, flow.desired_format.nSamplesPerSec)
        /\ Len(flow.passed) = 2
        /\ flow.passed[2] = flow.aligned_period

C24_NoLostWakeup ==
    /\ [](flow.pc = "get_result" => flow.completed)
    /\ [](op = "new_application_loopback_client" => io.completed)
    /\ (flow.completed ~> flow.pc = "returned")

\* The caller was waiting on the condition variable when the handler, having
\* set the flag, notified it.
C24_Witness ==
    /\ flow.pc = "reacquire"
    /\ flow.hpc = "returned"
    /\ flow.completed
    /\ op = "ActivateCompleted_notify_one"

\* Bit b of a mask.
BitSet(mask, b) ==
    (mask \div Pow2(b)) % 2 = 1

\* Exactly the lowest n bits of the mask are set.
LowestBits(mask, n) ==
    \A b \in 0..30 : BitSet(mask, b) <=> b < n

\* C25: WaveFormat::new without a channel mask stores a mask with exactly the
\* lowest `channels` bits set for 0 to 18 channels, the mask
\* make_simple_channelmask gives, and 0 above 18 channels; a given mask is
\* stored unchanged.
C25_SynthesizedMask ==
    /\ op = "new" =>
          /\ req.channel_mask # <<>> => res.val.dwChannelMask = req.channel_mask[1]
          /\ (req.channel_mask = <<>> /\ req.channels <= 18)
                => /\ LowestBits(res.val.dwChannelMask, req.channels)
                   /\ res.val.dwChannelMask = make_simple_channelmask(req.channels)
          /\ (req.channel_mask = <<>> /\ req.channels > 18) => res.val.dwChannelMask = 0
    /\ op = "make_simple_channelmask" =>
          /\ req.channels <= 18 => LowestBits(res.val, req.channels)
          /\ req.channels > 18 => res.val = 0

C25_Witness ==
    /\ op = "new"
    /\ req.channel_mask = <<>>
    /\ req.channels = 18
    /\ res.val.dwChannelMask = 262143

\* The flags and durations of a request that was passed to the engine, but for
\* the loopback flag: the conversion flags, the event flag, the period and the
\* buffer duration.
DerivedFromMode(request, passed) ==
    LET mode == request.stream_mode
        shared == StreamShareMode(mode) = "Shared"
        conv == shared /\ mode.autoconvert
    IN  /\ "AUDCLNT_STREAMFLAGS_AUTOCONVERTPCM" \in passed.streamflags <=> conv
        /\ "AUDCLNT_STREAMFLAGS_SRC_DEFAULT_QUALITY" \in passed.streamflags <=> conv
        /\ "AUDCLNT_STREAMFLAGS_EVENTCALLBACK" \in passed.streamflags
              <=> StreamTiming(mode) = "Events"
        /\ shared => passed.period = 0
        /\ mode.tag = "EventsExclusive" => passed.buffer_duration = passed.period

C28_NextWaitFailsWithinTimeout ==
    /\ flow.ok_after_stop = 0
    /\ flow.io_after_fail = 0
    /\ flow.stopped => flow.since_stop <= flow.timeout_ms

\* C28, amended: after the first failed wait the loop reads or writes no
\* buffer, calls stop_stream and ends.  After another thread has stopped the
\* stream at most one more wait succeeds (a signal was pending); when the
\* loop was blocked in a wait with no signal pending at the stop, no wait
\* succeeds any more and the loop has ended when one timeout period has passed
\* since the stop.  In every case the loop ends after the stop.
C28_StopEndsLoop ==
    /\ [](/\ flow.io_after_fail = 0
          /\ flow.failed_wait => flow.pc \in {"stop"} \cup Ended
          /\ flow.pc = "exited" => flow.failed_wait /\ ~engRunning
          /\ flow.ok_after_stop <= 1
          /\ flow.blocked_at_stop =>
                 /\ flow.ok_after_stop = 0
                 /\ flow.since_stop <= flow.timeout_ms)
    /\ (flow.stopped ~> flow.pc \in Ended)

\* The stop arrived while the loop was blocked with no signal pending; the wait
\* timed out a full timeout period after it began, and the loop stopped the
\* stream and left.
C28_Witness ==
    /\ flow.pc = "exited"
    /\ op = "stop_stream"
    /\ flow.blocked_at_stop
    /\ flow.since_stop > 0
    /\ flow.failed_wait
    /\ ~engRunning


\* C29: one OnChannelVolumeChanged notification invokes the channel-volume
\* callback, when it is set, once for the changed channel when changedchannel
\* is below the channel count, once per channel in index order with that
\* channel's volume when changedchannel is u32::MAX, and not at all for any
\* other changedchannel; nothing is invoked when the callback is not set; and
\* the handler returns Ok in every case.
C29_ChannelVolumeDispatch ==
    op = "OnChannelVolumeChanged" =>
        LET channelcount == req.channelcount
            changedchannel == req.changedchannel
            volslice == req.newchannelvolumearray
            set == "channel_volume" \in session.callbacks
        IN  /\ res = Ok(0)
            /\ ~set => io.invoked = <<>>
            /\ (set /\ changedchannel < channelcount) =>
                   io.invoked = <<Invocation("channel_volume",
                                             volslice[changedchannel + 1], changedchannel)>>
            /\ (set /\ changedchannel = U32_MAX) =>
                   io.invoked = [idx \in 1..channelcount |->
                                     Invocation("channel_volume", volslice[idx], idx - 1)]
            /\ (set /\ changedchannel >= channelcount /\ changedchannel # U32_MAX) =>
                   io.invoked = <<>>


\* C30: when read_from_device fails with DataLengthTooShort the caller's slice
\* is as it was and the packet was released with its full frame count, so that
\* it has left the engine's queue; and no later read returns the frames of a
\* packet that caused this error.
C30_ShortReadDropsPacket ==
    op = "read_from_device" =>
        /\ (res.status = "Err" /\ res.err = "DataLengthTooShort") =>
               /\ io.out = req.data
               /\ io.packet.frames > 0
               /\ io.released = <<io.packet.frames>>
               /\ io.before # <<>>
               /\ flow.packets = Tail(io.before)
               /\ io.packet.info.index \in flow.lost
        /\ (res.status = "Ok" /\ res.val > 0) =>
               io.packet.info.index \notin flow.lost

\* A read that failed on a slice too short for the packet is repeated with a
\* longer slice and returns the packet that came after.
C30_Witness ==
    /\ op = "read_from_device"
    /\ res.status = "Ok"
    /\ res.val > 0
    /\ io.lost # {}
    /\ Len(req.data) > io.short_len
    /\ io.packet.info.index - 1 \in io.lost

=============================================================================
